---- MODULE Spec2Model ----
(***************************************************************************)
(* A model of the session-extraction pipeline of the coaching app:        *)
(* SessionExtractor.extractSessionsFromDocument with its four strategies, *)
(* the date calculator, the legacy week extractor, and the enhancement    *)
(* and schedule collaborators of AIService as the pipeline calls them.    *)
(*                                                                         *)
(* A document text is a sequence of tokens; a token is a record           *)
(* [k |-> kind, v |-> number]: "week" (a "week N" marker, v = N), "day"   *)
(* (a weekday name, v = its index, sunday = 0), "sport" (a sport keyword, *)
(* v = its index in Sports), "age" (an age-group phrase) and "word".      *)
(* Calendar days are integers; day 0 is a Sunday.                         *)
(***************************************************************************)
EXTENDS Integers, Sequences, FiniteSets, TLC

VARIABLES
  pc,                \* position of the extractSessionsFromDocument invocation
  today,             \* local calendar day of "new Date()"
  utcShift,          \* UTC calendar day minus local calendar day at that instant
  text,              \* the extracted document text
  plan,              \* the trainingPlan argument
  analysis,          \* the StructureAnalysis the analyzer returned
  academyInfo,       \* extractAcademyInfo's result
  sessions,          \* the strategy's week list (the baseline)
  enhancedSessions,  \* the week list the result carries
  enhancedFresh,     \* TRUE iff enhancedSessions is another array than sessions
  optimizedSchedule, \* "null" or "schedule"
  result,            \* the ExtractionResult returned
  error,             \* the error thrown to the caller
  stages,            \* the stages begun so far, in order
  outcome,           \* how each collaborator call of this invocation ended
  ai,                \* the state of AIService the enhancement call reads
  upcoming,          \* convertToUpcomingSessions' list
  dateCall,          \* the last direct calculateSessionDate call
  legacy,            \* the legacy extractor's week list and its conversion
  batch,             \* the scheduler screen's loop over the stored training plans
  notif,             \* one generateSessionNotifications call: input and output
  section,           \* one direct call of a helper of Strategy A on a week section
  store,             \* the stored notification lists and the calls that work on them
  queue              \* AIService's request queue and its processing loop

vars == <<pc, today, utcShift, text, plan, analysis, academyInfo, sessions,
          enhancedSessions, enhancedFresh, optimizedSchedule, result, error,
          stages, outcome, ai, upcoming, dateCall, legacy, batch, notif, section,
          store, queue>>

pipelineVars == <<pc, text, plan, analysis, academyInfo, sessions,
                  enhancedSessions, enhancedFresh, optimizedSchedule, result,
                  error, stages, outcome, ai, upcoming>>

\* the state outside the extractor: the screens and services that use it
sideVars == <<batch, notif, section, store, queue>>

(***************************************************************************)
(* Bounds of the model.                                                    *)
(***************************************************************************)
MaxWeeks == 3        \* largest totalWeeks an enumerated analysis reports
MaxSessions == 4     \* longest flat session list an enumerated analysis reports
MaxAiFail == 2       \* weeks 1..MaxAiFail may fail in the AI service, one by one
MaxPlans == 3        \* most training plans of one batch
MaxNotified == 2     \* most sessions handed to one notification generation
MaxWeekNumber == 3   \* largest weekNumber of a direct calculateSessionDate call
MaxPieces == 3       \* most pieces of one week section
PieceChars == 25     \* characters a piece of a section takes, with the text after it
MaxNotifIds == 2     \* the notifications the sessions give rise to
MaxRequests == 4     \* most requests passed to queueRequest

(***************************************************************************)
(* Program constants.                                                      *)
(***************************************************************************)
DaysPerWeek == 7
PartialDefaultWeeks == 12
BasicDefaultWeeks == 8
UnstructuredWeeks == 4
SessionsPerWeek == 3
BasicDuration == 90
UnstructuredTotalDuration == 270
GeneralDuration == 120
DurationBefore == 100
DurationAfter == 200
TimeBefore == 50
TimeAfter == 100
MinutesPerHour == 60

Weekdays == <<"sunday", "monday", "tuesday", "wednesday", "thursday", "friday", "saturday">>

Sports == <<"soccer", "football", "basketball", "tennis", "volleyball", "swimming">>

(***************************************************************************)
(* JavaScript helpers.                                                     *)
(***************************************************************************)
\* Array.prototype.indexOf: the 0-based index of the first x, -1 when absent
indexOf(seq, x) ==
  IF \E i \in 1..Len(seq) : seq[i] = x
    THEN (CHOOSE i \in 1..Len(seq) : seq[i] = x /\ \A j \in 1..(i - 1) : seq[j] # x) - 1
    ELSE -1

\* the % operator: the remainder has the sign of the dividend
JsRem(a, b) == IF a >= 0 THEN a % b ELSE -((-a) % b)

Min2(a, b) == IF a <= b THEN a ELSE b

RECURSIVE SumDurations(_)
\* dailySessions.reduce((sum, s) => sum + s.duration, 0)
SumDurations(ds) == IF ds = <<>> THEN 0 ELSE ds[1].duration + SumDurations(Tail(ds))

RECURSIVE CountDaily(_)
\* sessions.reduce((sum, week) => sum + week.dailySessions.length, 0)
CountDaily(ws) == IF ws = <<>> THEN 0 ELSE Len(ws[1].dailySessions) + CountDaily(Tail(ws))

RECURSIVE DecPrefix(_, _)
\* the decimal digits of n are a prefix of those of m (/week\s*n/ matches "week m")
DecPrefix(n, m) == n = m \/ (m >= 10 /\ DecPrefix(n, m \div 10))

(***************************************************************************)
(* Date calculator.                                                        *)
(***************************************************************************)
\* Date.prototype.getDay of a local calendar day
getDay(d) == d % DaysPerWeek

\* toISOString().split('T')[0]: the UTC calendar day of a local instant
toISODate(localDay) == localDay + utcShift

calculateSessionDate(weekNumber, dayName) ==
  LET dayIndex == indexOf(Weekdays, dayName)
      targetDate == today + (weekNumber - 1) * DaysPerWeek
      currentDay == getDay(targetDate)
      daysToAdd == JsRem(dayIndex - currentDay + DaysPerWeek, DaysPerWeek)
  IN toISODate(targetDate + daysToAdd)

(***************************************************************************)
(* Results of calls that may throw: val is the value returned, or is       *)
(* without meaning when threw is TRUE.                                     *)
(***************************************************************************)
Ok(v) == [threw |-> FALSE, val |-> v]

Throw(v) == [threw |-> TRUE, val |-> v]

\* the values of a sequence of results
Vals(rs) == [i \in 1..Len(rs) |-> rs[i].val]

AnyThrew(rs) == \E i \in 1..Len(rs) : rs[i].threw

(***************************************************************************)
(* Text helpers.                                                           *)
(***************************************************************************)
\* text.search(new RegExp(`week\s*${weekNumber}`, 'gi')) finds a match
TextMatchesWeek(txt, weekNumber) ==
  \E i \in 1..Len(txt) : txt[i].k = "week" /\ DecPrefix(weekNumber, txt[i].v)

\* weekMatch[0] of /week\s*N[\s\S]*?(?=week\s*(N+1)|$)/gi: from the first
\* "week N" up to the next "week N+1", or to the end of the text
WeekWindow(txt, weekNumber) ==
  LET start == CHOOSE i \in 1..Len(txt) :
                 /\ txt[i].k = "week" /\ DecPrefix(weekNumber, txt[i].v)
                 /\ \A j \in 1..(i - 1) : ~(txt[j].k = "week" /\ DecPrefix(weekNumber, txt[j].v))
      IsNext(j) == j > start /\ txt[j].k = "week" /\ DecPrefix(weekNumber + 1, txt[j].v)
      stop == IF \E j \in 1..Len(txt) : IsNext(j)
                THEN (CHOOSE j \in 1..Len(txt) : IsNext(j) /\ \A h \in 1..(j - 1) : ~IsNext(h)) - 1
                ELSE Len(txt)
  IN SubSeq(txt, start, stop)

\* the weekday names of a text, in document order, lower-cased
DayNamesIn(txt) ==
  LET F[i \in 0..Len(txt)] ==
        IF i = 0 THEN <<>>
        ELSE IF txt[i].k = "day" THEN Append(F[i - 1], Weekdays[txt[i].v + 1])
        ELSE F[i - 1]
  IN F[Len(txt)]

(***************************************************************************)
(* Academy/context extractor.                                              *)
(***************************************************************************)
extractAcademyInfo(txt, trainingPlan) ==
  LET sportAt == {i \in 1..Len(txt) : txt[i].k = "sport"}
      first == CHOOSE i \in sportAt : \A j \in sportAt : i <= j
      sport == IF sportAt # {} THEN Sports[txt[first].v + 1] ELSE ""
      ageGroup == IF \E i \in 1..Len(txt) : txt[i].k = "age" THEN "under 12" ELSE ""
  IN [sport |-> IF sport # "" THEN sport
                ELSE IF trainingPlan.category # "" THEN trainingPlan.category
                ELSE "soccer",
      ageGroup |-> IF ageGroup # "" THEN ageGroup ELSE "Youth",
      difficulty |-> IF trainingPlan.difficulty # "" THEN trainingPlan.difficulty
                     ELSE "intermediate"]

(***************************************************************************)
(* Session builders.                                                       *)
(***************************************************************************)
\* Date.now() during one synchronous strategy call: the clock is taken not to
\* advance, so only the other parts of an id tell two records apart
DateNow == 0

\* the id template of a daily session: session_<week>_<day>_<tag>_<now>; the
\* weekly-plan builders leave the day number out
SessionId(weekNumber, dayNumber, builder) ==
  <<"session", weekNumber,
    IF builder \in {"general", "alternative"} THEN 0 ELSE dayNumber, builder, DateNow>>

\* the id template of a week: week_<week>_<tag>_<now>
WeekId(weekNumber, strategy) == <<"week", weekNumber, strategy, DateNow>>

\* variant of the daily-session record whose id leaves the day number out
DailySessionIdByWeek(weekNumber, dayNumber, day, date, duration, type, builder) ==
  [id |-> SessionId(weekNumber, 0, builder),
   weekNumber |-> weekNumber, dayNumber |-> dayNumber, day |-> day, date |-> date,
   time |-> "08:00", duration |-> duration, type |-> type, builder |-> builder,
   enhancedBy |-> "none"]

DailySession(weekNumber, dayNumber, day, date, duration, type, builder) ==
  [id |-> SessionId(weekNumber, dayNumber, builder),
   weekNumber |-> weekNumber, dayNumber |-> dayNumber, day |-> day, date |-> date,
   time |-> "08:00", duration |-> duration, type |-> type, builder |-> builder,
   enhancedBy |-> "none"]

WeekSession(weekNumber, dailySessions, totalDuration, strategy) ==
  [id |-> WeekId(weekNumber, strategy),
   weekNumber |-> weekNumber, dailySessions |-> dailySessions,
   totalDuration |-> totalDuration, strategy |-> strategy, aiEnhanced |-> FALSE,
   aiProvider |-> "none"]

createBasicSession(weekNumber, dayNumber, dayName, info) ==
  DailySession(weekNumber, dayNumber, dayName, calculateSessionDate(weekNumber, dayName),
               BasicDuration, "Team Training", "basic")

generateDefaultWeekSessions(weekNumber, info) ==
  LET days == <<"monday", "wednesday", "friday">>
  IN [index \in 1..Len(days) |-> createBasicSession(weekNumber, index, days[index], info)]

mapSessionToDay(dayNumber) ==
  LET dayMap == <<"monday", "wednesday", "friday", "tuesday", "thursday", "saturday", "sunday">>
  IN IF dayNumber \in 1..Len(dayMap) THEN dayMap[dayNumber] ELSE "monday"

createSessionFromDetail(sessionDetail, weekNumber, dayNumber, info) ==
  DailySession(weekNumber, dayNumber, mapSessionToDay(dayNumber),
               calculateSessionDate(weekNumber, mapSessionToDay(dayNumber)),
               BasicDuration, sessionDetail, "detail")

(***************************************************************************)
(* The class defines extractWeekDescription, extractWeekFocus and          *)
(* extractSessionFocus twice; the later definitions (for arrays of lines)  *)
(* are the methods of the class.  Given a string they throw a TypeError    *)
(* (content.filter / content.join is not a function).                      *)
(***************************************************************************)
extractWeekDescription(contentIsArray) ==
  IF contentIsArray THEN Ok("description") ELSE Throw("TypeError")

extractWeekFocus(contentIsArray) ==
  IF contentIsArray THEN Ok("focus") ELSE Throw("TypeError")

extractWeekFocusByNumber(txt, weekNumber) ==
  IF ~TextMatchesWeek(txt, weekNumber) THEN Ok("general training")
  ELSE extractWeekFocus(FALSE)

extractSessionsForSpecificWeek(txt, weekNumber, info) ==
  IF ~TextMatchesWeek(txt, weekNumber) THEN generateDefaultWeekSessions(weekNumber, info)
  ELSE LET days == DayNamesIn(WeekWindow(txt, weekNumber))
       IN IF Len(days) = 0 THEN generateDefaultWeekSessions(weekNumber, info)
          ELSE [index \in 1..Len(days) |->
                  createBasicSession(weekNumber, index, days[index], info)]

(***************************************************************************)
(* The four strategies.  Each returns Ok(week list) or Throw.              *)
(***************************************************************************)
\* weekStructure.weekTitles.sort((a, b) => a.position - b.position)
SortByPosition(weekTitles) ==
  IF weekTitles = <<>> THEN <<>>
  ELSE CHOOSE s \in [1..Len(weekTitles) -> {weekTitles[i] : i \in 1..Len(weekTitles)}] :
         /\ \A i \in 1..Len(weekTitles) :
              Cardinality({j \in 1..Len(s) : s[j] = weekTitles[i]})
                = Cardinality({j \in 1..Len(weekTitles) : weekTitles[j] = weekTitles[i]})
         /\ \A i \in 1..(Len(s) - 1) : s[i].position <= s[i + 1].position

splitTextByWeeks(txt, weekStructure) ==
  LET weekTitles == SortByPosition(weekStructure.weekTitles)
  IN [i \in 1..Len(weekTitles) |->
        [weekNumber |-> weekTitles[i].number,
         startPosition |-> weekTitles[i].position,
         endPosition |-> IF i + 1 <= Len(weekTitles) THEN weekTitles[i + 1].position
                         ELSE Len(txt)]]

\* Strategy A: the week record is built field by field, and its description is
\* extractWeekDescription(weekSection.content) with a string for content
extractFromHighlyStructuredDocument(txt, structureAnalysis, info) ==
  LET weekSections == splitTextByWeeks(txt, structureAnalysis.weekStructure)
      description == extractWeekDescription(FALSE)
  IN IF Len(weekSections) = 0 THEN Ok(<<>>)
     ELSE IF description.threw THEN Throw(<<>>)
     ELSE Ok(<<>>)

\* variant of Strategy B that walks identifiedWeeks in the analyzer's order
\* instead of counting 1..maxWeek
extractWithPartialWeekStructureAsListed(txt, structureAnalysis, info) ==
  LET identifiedWeeks == structureAnalysis.weekStructure.identifiedWeeks
      week(weekNum) ==
        LET dailySessions == generateDefaultWeekSessions(weekNum, info)
        IN WeekSession(weekNum, dailySessions, SumDurations(dailySessions), "partial")
  IN IF \E i \in 1..Len(identifiedWeeks) :
          extractWeekFocusByNumber(txt, identifiedWeeks[i]).threw
       THEN Throw(<<>>)
       ELSE Ok([i \in 1..Len(identifiedWeeks) |-> week(identifiedWeeks[i])])

\* Strategy B
extractWithPartialWeekStructure(txt, structureAnalysis, info) ==
  LET weekStructure == structureAnalysis.weekStructure
      maxWeek == IF weekStructure.totalWeeks # 0 THEN weekStructure.totalWeeks
                 ELSE PartialDefaultWeeks
      hasExplicitWeek(weekNum) ==
        \E i \in 1..Len(weekStructure.identifiedWeeks) :
          weekStructure.identifiedWeeks[i] = weekNum
      focus(weekNum) == IF hasExplicitWeek(weekNum) THEN extractWeekFocusByNumber(txt, weekNum)
                        ELSE Ok("generated")
      week(weekNum) ==
        LET dailySessions == IF hasExplicitWeek(weekNum)
                               THEN extractSessionsForSpecificWeek(txt, weekNum, info)
                               ELSE generateDefaultWeekSessions(weekNum, info)
        IN WeekSession(weekNum, dailySessions, SumDurations(dailySessions), "partial")
  IN IF \E weekNum \in 1..maxWeek : focus(weekNum).threw THEN Throw(<<>>)
     ELSE Ok([weekNum \in 1..maxWeek |-> week(weekNum)])

\* Math.ceil(totalSessions / sessionsPerWeek)
CeilDiv(a, b) == (a + b - 1) \div b

\* variant of Strategy C that builds whole weeks only: the sessions left over
\* after the last full week of three are dropped
extractWithSessionStructureWholeWeeks(txt, structureAnalysis, info) ==
  LET sessionStructure == structureAnalysis.sessionStructure
      totalWeeks == sessionStructure.totalSessions \div SessionsPerWeek
      week(weekNum) ==
        LET slice == SubSeq(sessionStructure.sessionDetails,
                            (weekNum - 1) * SessionsPerWeek + 1, weekNum * SessionsPerWeek)
            weekSessions == [index \in 1..Len(slice) |->
                               createSessionFromDetail(slice[index], weekNum, index, info)]
        IN WeekSession(weekNum, weekSessions, SumDurations(weekSessions), "sessions")
  IN Ok([weekNum \in 1..totalWeeks |-> week(weekNum)])

\* Strategy C
extractWithSessionStructure(txt, structureAnalysis, info) ==
  LET sessionStructure == structureAnalysis.sessionStructure
      totalSessions == sessionStructure.totalSessions
      totalWeeks == CeilDiv(totalSessions, SessionsPerWeek)
      week(weekNum) ==
        LET startSessionIndex == (weekNum - 1) * SessionsPerWeek
            endSessionIndex == Min2(startSessionIndex + SessionsPerWeek, totalSessions)
            slice == SubSeq(sessionStructure.sessionDetails, startSessionIndex + 1,
                            Min2(endSessionIndex, Len(sessionStructure.sessionDetails)))
            weekSessions == [index \in 1..Len(slice) |->
                               createSessionFromDetail(slice[index], weekNum, index, info)]
        IN WeekSession(weekNum, weekSessions, SumDurations(weekSessions), "sessions")
  IN Ok([weekNum \in 1..totalWeeks |-> week(weekNum)])

\* variant of Strategy D that scans the text: it makes one week for each
\* "week N" marker of the text when the text has any
extractFromBasicStructuredDocumentByText(txt, structureAnalysis, info) ==
  LET marked == Cardinality({i \in 1..Len(txt) : txt[i].k = "week"})
      totalWeeks == IF marked # 0 THEN marked
                    ELSE IF structureAnalysis.weekStructure.totalWeeks # 0
                      THEN structureAnalysis.weekStructure.totalWeeks
                    ELSE BasicDefaultWeeks
      week(weekNum) ==
        LET dailySessions == generateDefaultWeekSessions(weekNum, info)
        IN WeekSession(weekNum, dailySessions, SumDurations(dailySessions), "basic")
  IN Ok([weekNum \in 1..totalWeeks |-> week(weekNum)])

\* Strategy D
extractFromBasicStructuredDocument(txt, structureAnalysis, info) ==
  LET totalWeeks == IF structureAnalysis.weekStructure.totalWeeks # 0
                      THEN structureAnalysis.weekStructure.totalWeeks
                      ELSE BasicDefaultWeeks
      week(weekNum) ==
        LET dailySessions == generateDefaultWeekSessions(weekNum, info)
        IN WeekSession(weekNum, dailySessions, SumDurations(dailySessions), "basic")
  IN Ok([weekNum \in 1..totalWeeks |-> week(weekNum)])

\* Strategy D'
extractFromUnstructuredDocument(txt, structureAnalysis, info) ==
  LET totalWeeks == UnstructuredWeeks
      week(weekNum) ==
        LET dailySessions == <<createBasicSession(weekNum, 1, "monday", info),
                               createBasicSession(weekNum, 2, "wednesday", info),
                               createBasicSession(weekNum, 3, "friday", info)>>
        IN WeekSession(weekNum, dailySessions, UnstructuredTotalDuration, "unstructured")
  IN Ok([weekNum \in 1..totalWeeks |-> week(weekNum)])

\* variant of the moderately structured branch that looks at the sessions
\* before the weeks
extractFromModeratelyStructuredSessionsFirst(txt, structureAnalysis, info) ==
  IF structureAnalysis.sessionStructure.hasStructuredSessions
    THEN extractWithSessionStructure(txt, structureAnalysis, info)
  ELSE IF structureAnalysis.weekStructure.totalWeeks > 0
    THEN extractWithPartialWeekStructure(txt, structureAnalysis, info)
  ELSE extractFromBasicStructuredDocument(txt, structureAnalysis, info)

extractFromModeratelyStructuredDocument(txt, structureAnalysis, info) ==
  IF structureAnalysis.weekStructure.totalWeeks > 0
    THEN extractWithPartialWeekStructure(txt, structureAnalysis, info)
  ELSE IF structureAnalysis.sessionStructure.hasStructuredSessions
    THEN extractWithSessionStructure(txt, structureAnalysis, info)
  ELSE extractFromBasicStructuredDocument(txt, structureAnalysis, info)

\* the dispatcher; destructuring a null analysis, or reading the level of a
\* missing organizationLevel, throws a TypeError
extractSessionsWithStructureAwareness(txt, structureAnalysis, info) ==
  IF structureAnalysis.shape # "ok" THEN Throw(<<>>)
  ELSE CASE structureAnalysis.level = "highly_structured" ->
              extractFromHighlyStructuredDocument(txt, structureAnalysis, info)
         [] structureAnalysis.level = "moderately_structured" ->
              extractFromModeratelyStructuredDocument(txt, structureAnalysis, info)
         [] structureAnalysis.level = "basic_structure" ->
              extractFromBasicStructuredDocument(txt, structureAnalysis, info)
         [] OTHER -> extractFromUnstructuredDocument(txt, structureAnalysis, info)

(***************************************************************************)
(* AIService: session enhancement, as extractSessionsFromDocument calls it.*)
(***************************************************************************)
\* sportsKnowledge[sport].ageProgression, each age key with its duration
SoccerAges == [k \in {"4-6", "7-9", "10-12", "13-15", "16+"} |->
                 CASE k = "4-6" -> 30 [] k = "7-9" -> 45 [] k = "10-12" -> 60
                   [] k = "13-15" -> 75 [] OTHER -> 90]

BasketballAges == [k \in {"6-8", "9-11", "12-14", "15-17", "18+"} |->
                     CASE k = "6-8" -> 30 [] k = "9-11" -> 45 [] k = "12-14" -> 60
                       [] k = "15-17" -> 75 [] OTHER -> 90]

\* this.sportsKnowledge[sport.toLowerCase()] || this.sportsKnowledge.soccer
SportsDataOrSoccer(sport) == IF sport = "basketball" THEN BasketballAges ELSE SoccerAges

\* the profile extractSessionsFromDocument passes to the enhancement call
UserProfile(info, trainingPlan) ==
  [ageGroup |-> info.ageGroup, sport |-> info.sport,
   experience |-> IF trainingPlan.difficulty # "" THEN trainingPlan.difficulty ELSE "beginner"]

\* ageConfig is undefined when neither the age group nor '10-12' is a key of
\* the sport's table, and ageConfig.duration then throws a TypeError
personalizeSessionAdvanced(session, userProfile, weekNumber) ==
  LET sportsData == SportsDataOrSoccer(userProfile.sport)
  IN IF userProfile.ageGroup \in DOMAIN sportsData
       THEN Ok([session EXCEPT !.duration = Min2(@, sportsData[userProfile.ageGroup]),
                               !.enhancedBy = "advanced_fallback"])
     ELSE IF "10-12" \in DOMAIN sportsData
       THEN Ok([session EXCEPT !.duration = Min2(@, sportsData["10-12"]),
                               !.enhancedBy = "advanced_fallback"])
     ELSE Throw(session)

enhanceWeekWithAdvancedFallback(weekSession, userProfile) ==
  LET ds == [i \in 1..Len(weekSession.dailySessions) |->
               personalizeSessionAdvanced(weekSession.dailySessions[i], userProfile,
                                          weekSession.weekNumber)]
  IN IF AnyThrew(ds) THEN Throw(weekSession)
     ELSE Ok([weekSession EXCEPT !.aiEnhanced = TRUE, !.aiProvider = "internal_intelligence",
                                 !.dailySessions = Vals(ds)])

enhanceWithAdvancedFallback(weeks, userProfile) ==
  LET ws == [i \in 1..Len(weeks) |-> enhanceWeekWithAdvancedFallback(weeks[i], userProfile)]
  IN IF AnyThrew(ws) THEN Throw(<<>>) ELSE Ok(Vals(ws))

\* duration: tfEnhancement.enhancedSession?.duration || session.duration
applyTensorFlowEnhancements(session, tfDuration) ==
  [session EXCEPT !.duration = IF tfDuration # 0 THEN tfDuration ELSE @,
                  !.enhancedBy = "tensorflow"]

\* a week whose TensorFlowService.enhanceSession call fails takes the fallback
enhanceWithTensorFlow(weeks, userProfile, aiState) ==
  LET ws == [i \in 1..Len(weeks) |->
               IF i \in aiState.aiFail
                 THEN enhanceWeekWithAdvancedFallback(weeks[i], userProfile)
                 ELSE Ok([weeks[i] EXCEPT
                            !.aiEnhanced = TRUE, !.aiProvider = "tensorflow",
                            !.dailySessions =
                               [j \in 1..Len(weeks[i].dailySessions) |->
                                  applyTensorFlowEnhancements(weeks[i].dailySessions[j],
                                                              aiState.tfDuration)]])]
  IN IF AnyThrew(ws) THEN Throw(<<>>) ELSE Ok(Vals(ws))

\* the duration is capped only when the profile's age group is a key of the
\* sport's table (sportsData?.ageProgression[ageGroup])
applyAIEnhancements(session, userProfile) ==
  LET known == userProfile.sport \in {"soccer", "basketball"}
      sportsData == SportsDataOrSoccer(userProfile.sport)
  IN [session EXCEPT
        !.duration = IF known /\ userProfile.ageGroup \in DOMAIN sportsData
                       THEN Min2(@, sportsData[userProfile.ageGroup]) ELSE @,
        !.enhancedBy = "huggingface"]

\* a week whose queued request fails takes the fallback
enhanceWithHuggingFace(weeks, userProfile, aiState) ==
  LET ws == [i \in 1..Len(weeks) |->
               IF i \in aiState.aiFail
                 THEN enhanceWeekWithAdvancedFallback(weeks[i], userProfile)
                 ELSE Ok([weeks[i] EXCEPT
                            !.aiEnhanced = TRUE, !.aiProvider = "huggingface",
                            !.dailySessions =
                               [j \in 1..Len(weeks[i].dailySessions) |->
                                  applyAIEnhancements(weeks[i].dailySessions[j],
                                                      userProfile)]])]
  IN IF AnyThrew(ws) THEN Throw(<<>>) ELSE Ok(Vals(ws))

\* the service's own catch retries with the rule-based fallback
enhanceExtractedSessions(weeks, userProfile, aiState) ==
  LET first == CASE aiState.bestService = "tensorflow" ->
                      enhanceWithTensorFlow(weeks, userProfile, aiState)
                 [] aiState.bestService = "huggingface" ->
                      enhanceWithHuggingFace(weeks, userProfile, aiState)
                 [] OTHER -> enhanceWithAdvancedFallback(weeks, userProfile)
  IN IF first.threw THEN enhanceWithAdvancedFallback(weeks, userProfile) ELSE first

\* destructures dayStructure, durationAnalysis and schedulePattern and reads
\* schedulePattern.recommendedFrequency: a TypeError when the analysis has none
deriveSchedulePreferences(structureAnalysis) ==
  IF structureAnalysis.hasSchedulePattern THEN Ok("preferences") ELSE Throw("TypeError")

(***************************************************************************)
(* Inputs.                                                                 *)
(***************************************************************************)
Tok(k, v) == [k |-> k, v |-> v]

Docs ==
  { <<>>,
    <<Tok("week", 1), Tok("day", 1), Tok("week", 2), Tok("day", 3)>>,
    <<Tok("word", 0)>>,
    <<Tok("week", 12), Tok("day", 2)>>,
    <<Tok("sport", 2), Tok("age", 0), Tok("word", 0)>>,
    <<Tok("week", 2), Tok("word", 0)>> }

Plans == { [category |-> "", difficulty |-> ""],
           [category |-> "basketball", difficulty |-> "advanced"] }

Title(n, p) == [number |-> n, position |-> p]

Analysis(level, totalWeeks, identifiedWeeks, weekTitles, hasSessions, details, pattern) ==
  [shape |-> "ok", level |-> level,
   weekStructure |-> [totalWeeks |-> totalWeeks, identifiedWeeks |-> identifiedWeeks,
                      weekTitles |-> weekTitles],
   sessionStructure |-> [hasStructuredSessions |-> hasSessions,
                         totalSessions |-> Len(details), sessionDetails |-> details],
   hasSchedulePattern |-> pattern]

TitleLists == { <<>>, <<Title(1, 0), Title(2, 2)>>, <<Title(2, 2), Title(1, 0)>> }

WeekLists == { <<>>, <<1>>, <<2, 1>> }

\* the types of the entries of a flat session list whose entries all differ
DetailTypes == <<"warm-up", "technical", "tactical", "conditioning", "match", "recovery">>

DetailLists ==
  { [i \in 1..n |-> "training"] : n \in 0..MaxSessions }
    \cup { [i \in 1..n |-> DetailTypes[i]] : n \in 1..MaxSessions }

AnalysesWith(p) ==
  UNION { { Analysis("highly_structured", Len(t), w, t, FALSE, <<>>, p) :
              t \in TitleLists, w \in WeekLists },
          { Analysis("moderately_structured", n, w, <<>>, FALSE, <<>>, p) :
              n \in 1..MaxWeeks, w \in WeekLists },
          { Analysis("moderately_structured", 0, <<>>, <<>>, TRUE, d, p) :
              d \in DetailLists },
          { Analysis("moderately_structured", 1, <<>>, <<>>, TRUE, <<"training">>, p) },
          { Analysis("moderately_structured", 0, <<>>, <<>>, FALSE, <<>>, p) },
          { Analysis("basic_structure", n, <<>>, <<>>, FALSE, <<>>, p) :
              n \in 0..MaxWeeks },
          { Analysis(l, 0, <<>>, <<>>, FALSE, <<>>, p) :
              l \in {"unstructured", "undefined"} } }

Analyses ==
  UNION { AnalysesWith(p) : p \in BOOLEAN }
  \cup { [Analysis("undefined", 0, <<>>, <<>>, FALSE, <<>>, FALSE) EXCEPT !.shape = s] :
           s \in {"null", "no_organizationLevel"} }

\* the states of AIService that make a difference to the enhancement call
AiStates ==
  [bestService : {"tensorflow"}, aiFail : SUBSET (1..MaxAiFail), tfDuration : {0, 45}]
  \cup [bestService : {"huggingface"}, aiFail : SUBSET (1..MaxAiFail), tfDuration : {0}]
  \cup [bestService : {"ruleBased"}, aiFail : {{}}, tfDuration : {0}]

(***************************************************************************)
(* Conversion to the upcoming-sessions list.                               *)
(***************************************************************************)
RECURSIVE Flatten(_)
\* the nested forEach: every daily session of every week, in order
Flatten(seqs) == IF seqs = <<>> THEN <<>> ELSE seqs[1] \o Flatten(Tail(seqs))

\* Array.prototype.sort with (a, b) => new Date(a.date) - new Date(b.date):
\* a stable sort by date, ascending
SortByDate(list) ==
  LET Insert(sorted, x) ==
        LET k == Cardinality({i \in 1..Len(sorted) : sorted[i].date <= x.date})
        IN SubSeq(sorted, 1, k) \o <<x>> \o SubSeq(sorted, k + 1, Len(sorted))
      F[i \in 0..Len(list)] == IF i = 0 THEN <<>> ELSE Insert(F[i - 1], list[i])
  IN F[Len(list)]

\* variant of the conversion that returns the flattened list as it is, unsorted
convertToUpcomingSessionsUnsorted(extractedData) ==
  Flatten([w \in 1..Len(extractedData.sessions) |->
             LET week == extractedData.sessions[w]
             IN [d \in 1..Len(week.dailySessions) |->
                   [week.dailySessions[d] EXCEPT
                      !.date = calculateSessionDate(week.weekNumber,
                                                    week.dailySessions[d].day),
                      !.weekNumber = week.weekNumber]]])

\* the upcoming record takes its date from calculateSessionDate(week.weekNumber,
\* session.day) and its weekNumber from the week; day is kept here for reference
convertToUpcomingSessions(extractedData) ==
  LET perWeek == [w \in 1..Len(extractedData.sessions) |->
                    LET week == extractedData.sessions[w]
                    IN [d \in 1..Len(week.dailySessions) |->
                          [week.dailySessions[d] EXCEPT
                             !.date = calculateSessionDate(week.weekNumber,
                                                           week.dailySessions[d].day),
                             !.weekNumber = week.weekNumber]]]
  IN SortByDate(Flatten(perWeek))

(***************************************************************************)
(* The legacy extractor (extractWeeklySessions and its builders).  A parsed*)
(* structure is a sequence of weeks, a week the sequence of its days, a day*)
(* a record [day |-> marker, duration |-> minutes].                        *)
(***************************************************************************)
createDailySession(day, weekIndex, dayIndex) ==
  DailySession(weekIndex + 1, dayIndex + 1, day.day,
               calculateSessionDate(weekIndex + 1, day.day),
               IF day.duration # 0 THEN day.duration ELSE BasicDuration,
               "Team Training", "daily")

createGeneralWeekSession(week, weekIndex) ==
  DailySession(weekIndex + 1, 1, "week_plan", calculateSessionDate(weekIndex + 1, "monday"),
               GeneralDuration, "Weekly Plan", "general")

\* one week per /Week\s+(\d+)/ match, each with one week_plan session
attemptAlternativeWeekExtraction(txt) ==
  LET at == {i \in 1..Len(txt) : txt[i].k = "week"}
      nth(n) == CHOOSE i \in at : Cardinality({j \in at : j < i}) = n - 1
  IN [n \in 1..Cardinality(at) |->
        LET weekNumber == txt[nth(n)].v
        IN WeekSession(weekNumber,
                       <<DailySession(weekNumber, 1, "week_plan",
                                      calculateSessionDate(weekNumber, "monday"),
                                      GeneralDuration, "Weekly Plan", "alternative")>>,
                       GeneralDuration, "alternative")]

\* text.includes('12')
Includes12(txt) == \E i \in 1..Len(txt) : txt[i].k = "week" /\ txt[i].v = 12

extractWeeklySessions(txt, structure) ==
  LET week(w) ==
        LET days == structure[w]
            daily == IF Len(days) > 0
                       THEN [d \in 1..Len(days) |-> createDailySession(days[d], w - 1, d - 1)]
                       ELSE <<createGeneralWeekSession(days, w - 1)>>
        IN WeekSession(w, daily, SumDurations(daily), "legacy")
      weeks == [w \in 1..Len(structure) |-> week(w)]
      alternativeSessions == attemptAlternativeWeekExtraction(txt)
  IN IF /\ Len(weeks) < 8
        /\ \E i \in 1..Len(txt) : txt[i].k = "week"
        /\ Includes12(txt)
        /\ Len(alternativeSessions) > Len(weeks)
       THEN alternativeSessions
       ELSE weeks

Day(name, minutes) == [day |-> name, duration |-> minutes]

Structures ==
  { <<>>,
    << <<>> >>,
    << <<Day("monday", 60)>>, <<>> >>,
    << <<Day("training session", 0), Day("friday", 0)>> >>,
    << <<>>, <<Day("wednesday", 90), Day("warm up", 45)>> >> }

(***************************************************************************)
(* extractSessionsFromDocument, one action per awaited stage.              *)
(***************************************************************************)
ContextLabel == "Enhanced Session Extraction"

\* PlatformUtils.handlePlatformError(error, context)
handlePlatformError(cause, context) == [cause |-> cause, context |-> context]

NoError == [cause |-> "", context |-> ""]

NoOutcome == [text |-> "none", analysis |-> "none", strategy |-> "none",
              enhance |-> "none", schedule |-> "none"]

NoAnalysis == [Analysis("undefined", 0, <<>>, <<>>, FALSE, <<>>, FALSE) EXCEPT !.shape = "none"]

NoResult == [sessions |-> <<>>, optimizedSchedule |-> "null", totalWeeks |-> 0,
             totalSessions |-> 0, aiEnhanced |-> FALSE, aiScheduled |-> FALSE,
             structureAware |-> FALSE]

NoAi == [bestService |-> "ruleBased", aiFail |-> {}, tfDuration |-> 0]

\* variant of the aiEnhanced flag that ignores whether the list was replaced
AiEnhancedFlagAlways(fresh) == TRUE

\* the result record's aiEnhanced: enhancedSessions !== sessions
AiEnhancedFlag(fresh) == fresh

\* the result record's aiScheduled: !!optimizedSchedule
AiScheduledFlag(schedule) == schedule # "null"

BuildResult(enhanced, fresh, schedule) ==
  [sessions |-> enhanced, optimizedSchedule |-> schedule, totalWeeks |-> Len(enhanced),
   totalSessions |-> CountDaily(enhanced), aiEnhanced |-> AiEnhancedFlag(fresh),
   aiScheduled |-> AiScheduledFlag(schedule), structureAware |-> TRUE]

\* variant of the boundary catch that rethrows without the context label
FailUnlabelled(cause) ==
  /\ pc' = "failed"
  /\ error' = handlePlatformError(cause, "")

\* the catch at the pipeline boundary
Fail(cause) ==
  /\ pc' = "failed"
  /\ error' = handlePlatformError(cause, ContextLabel)

Start ==
  /\ pc = "idle"
  /\ pc' = "extractText"
  /\ plan' \in Plans
  /\ UNCHANGED <<today, utcShift, text, analysis, academyInfo, sessions, enhancedSessions,
                 enhancedFresh, optimizedSchedule, result, error, stages, outcome, ai,
                 upcoming, dateCall, legacy>>
  /\ UNCHANGED sideVars

ExtractText ==
  /\ pc = "extractText"
  /\ stages' = Append(stages, "text")
  /\ \/ /\ text' \in Docs
        /\ outcome' = [outcome EXCEPT !.text = "ok"]
        /\ pc' = "analyze"
        /\ UNCHANGED error
     \/ /\ outcome' = [outcome EXCEPT !.text = "threw"]
        /\ Fail("text extraction")
        /\ UNCHANGED text
  /\ UNCHANGED <<today, utcShift, plan, analysis, academyInfo, sessions, enhancedSessions,
                 enhancedFresh, optimizedSchedule, result, ai, upcoming, dateCall, legacy>>
  /\ UNCHANGED sideVars

AnalyzeStructure ==
  /\ pc = "analyze"
  /\ stages' = Append(stages, "analysis")
  /\ \/ /\ analysis' \in Analyses
        /\ outcome' = [outcome EXCEPT !.analysis =
                         IF analysis'.shape = "ok" THEN "ok" ELSE "malformed"]
        /\ pc' = "dispatch"
        /\ UNCHANGED error
     \/ /\ outcome' = [outcome EXCEPT !.analysis = "threw"]
        /\ Fail("structure analysis")
        /\ UNCHANGED analysis
  /\ UNCHANGED <<today, utcShift, text, plan, academyInfo, sessions, enhancedSessions,
                 enhancedFresh, optimizedSchedule, result, ai, upcoming, dateCall, legacy>>
  /\ UNCHANGED sideVars

\* splitTextByWeeks sorts weekStructure.weekTitles in place, so Strategy A
\* leaves the caller's analysis with its titles in position order
Dispatch ==
  /\ pc = "dispatch"
  /\ stages' = stages \o <<"academy", "strategy">>
  /\ academyInfo' = extractAcademyInfo(text, plan)
  /\ LET r == extractSessionsWithStructureAwareness(text, analysis, academyInfo')
     IN IF r.threw
          THEN /\ outcome' = [outcome EXCEPT !.strategy = "threw"]
               /\ Fail("TypeError")
               /\ UNCHANGED <<sessions, enhancedSessions>>
          ELSE /\ outcome' = [outcome EXCEPT !.strategy = "ok"]
               /\ sessions' = r.val
               /\ enhancedSessions' = r.val
               /\ pc' = "enhance"
               /\ UNCHANGED error
  /\ analysis' = IF analysis.shape = "ok" /\ analysis.level = "highly_structured"
                   THEN [analysis EXCEPT !.weekStructure.weekTitles = SortByPosition(@)]
                   ELSE analysis
  /\ UNCHANGED <<today, utcShift, text, plan, enhancedFresh, optimizedSchedule,
                 result, ai, upcoming, dateCall, legacy>>
  /\ UNCHANGED sideVars

\* variant of the enhancement stage without its own try/catch: a throw of
\* enhanceExtractedSessions reaches the boundary catch
EnhanceUncaught ==
  /\ pc = "enhance"
  /\ stages' = Append(stages, "enhance")
  /\ \E a \in AiStates :
       /\ ai' = a
       /\ LET r == enhanceExtractedSessions(sessions, UserProfile(academyInfo, plan), a)
          IN IF r.threw
               THEN /\ outcome' = [outcome EXCEPT !.enhance = "threw"]
                    /\ pc' = "failed"
                    /\ error' = handlePlatformError("TypeError", ContextLabel)
                    /\ UNCHANGED <<enhancedSessions, enhancedFresh>>
               ELSE /\ outcome' = [outcome EXCEPT !.enhance = "ok"]
                    /\ enhancedSessions' = r.val
                    /\ enhancedFresh' = TRUE
                    /\ pc' = "schedule"
                    /\ UNCHANGED error
  /\ UNCHANGED <<today, utcShift, text, plan, analysis, academyInfo, sessions,
                 optimizedSchedule, result, upcoming, dateCall, legacy>>
  /\ UNCHANGED sideVars

\* variant of the enhancement stage that is started but not awaited: the
\* pipeline goes on while the call is still pending
EnhanceNotAwaited ==
  /\ pc = "enhance"
  /\ pc' = "schedule"
  /\ \E a \in AiStates : ai' = a
  /\ UNCHANGED <<today, utcShift, text, plan, analysis, academyInfo, sessions,
                 enhancedSessions, enhancedFresh, optimizedSchedule, result, error,
                 stages, outcome, upcoming, dateCall, legacy>>
  /\ UNCHANGED sideVars

Enhance ==
  /\ pc = "enhance"
  /\ stages' = Append(stages, "enhance")
  /\ \E a \in AiStates :
       /\ ai' = a
       /\ LET r == enhanceExtractedSessions(sessions, UserProfile(academyInfo, plan), a)
          IN IF r.threw
               THEN /\ outcome' = [outcome EXCEPT !.enhance = "threw"]
                    /\ UNCHANGED <<enhancedSessions, enhancedFresh>>
               ELSE /\ outcome' = [outcome EXCEPT !.enhance = "ok"]
                    /\ enhancedSessions' = r.val
                    /\ enhancedFresh' = TRUE
  /\ pc' = "schedule"
  /\ UNCHANGED <<today, utcShift, text, plan, analysis, academyInfo, sessions,
                 optimizedSchedule, result, error, upcoming, dateCall, legacy>>
  /\ UNCHANGED sideVars

\* generateOptimalSchedule returns a schedule or throws; the result is built
\* in the same turn
Schedule ==
  /\ pc = "schedule"
  /\ stages' = stages \o <<"schedule", "result">>
  /\ \E generated \in BOOLEAN :
       LET ok == ~deriveSchedulePreferences(analysis).threw /\ generated
       IN /\ optimizedSchedule' = IF ok THEN "schedule" ELSE "null"
          /\ outcome' = [outcome EXCEPT !.schedule = IF ok THEN "ok" ELSE "threw"]
  /\ result' = BuildResult(enhancedSessions, enhancedFresh, optimizedSchedule')
  /\ pc' = "done"
  /\ UNCHANGED <<today, utcShift, text, plan, analysis, academyInfo, sessions,
                 enhancedSessions, enhancedFresh, error, ai, upcoming, dateCall, legacy>>
  /\ UNCHANGED sideVars

Convert ==
  /\ pc = "done"
  /\ upcoming' = convertToUpcomingSessions(result)
  /\ pc' = "converted"
  /\ UNCHANGED <<today, utcShift, text, plan, analysis, academyInfo, sessions,
                 enhancedSessions, enhancedFresh, optimizedSchedule, result, error,
                 stages, outcome, ai, dateCall, legacy>>
  /\ UNCHANGED sideVars

(***************************************************************************)
(* Direct calls of the date calculator and of the legacy extractor.        *)
(***************************************************************************)
DayMarkers == {Weekdays[i] : i \in 1..Len(Weekdays)} \cup {"week_overview", "week_plan"}

NoDateCall == [weekNumber |-> 0, dayName |-> "", date |-> 0]

NoLegacy == [phase |-> "none", sessions |-> <<>>, upcoming |-> <<>>]

CalcDate ==
  /\ \E w \in 1..MaxWeekNumber, d \in DayMarkers :
       dateCall' = [weekNumber |-> w, dayName |-> d, date |-> calculateSessionDate(w, d)]
  /\ UNCHANGED <<today, utcShift, legacy>>
  /\ UNCHANGED pipelineVars
  /\ UNCHANGED sideVars

LegacyExtract ==
  /\ legacy.phase = "none"
  /\ \E t \in Docs, s \in Structures :
       legacy' = [phase |-> "extracted", sessions |-> extractWeeklySessions(t, s),
                  upcoming |-> <<>>]
  /\ UNCHANGED <<today, utcShift, dateCall>>
  /\ UNCHANGED pipelineVars
  /\ UNCHANGED sideVars

LegacyConvert ==
  /\ legacy.phase = "extracted"
  /\ legacy' = [legacy EXCEPT !.phase = "converted",
                              !.upcoming = convertToUpcomingSessions(legacy)]
  /\ UNCHANGED <<today, utcShift, dateCall>>
  /\ UNCHANGED pipelineVars
  /\ UNCHANGED sideVars

(***************************************************************************)
(* The scheduler screen: initializeSessionData's loop over the stored      *)
(* training plans.  What one plan meets is a case: no source document, a   *)
(* source document that is not stored, a throw of getStoredDocuments, a    *)
(* throw of the extraction, a null result, or a result for an analysis.    *)
(***************************************************************************)
BatchAnalyses ==
  { Analysis("highly_structured", 0, <<>>, <<>>, FALSE, <<>>, TRUE),
    Analysis("highly_structured", 1, <<1>>, <<Title(1, 0)>>, FALSE, <<>>, TRUE),
    Analysis("moderately_structured", 1, <<>>, <<>>, FALSE, <<>>, TRUE),
    Analysis("moderately_structured", 0, <<>>, <<>>, TRUE,
             <<"training", "training", "training", "training">>, TRUE) }

PlanCases ==
  [kind : {"no_source", "not_found", "documents_threw", "extraction_threw", "null_result"},
   analysis : {NoAnalysis}]
  \cup [kind : {"extracted"}, analysis : BatchAnalyses]

\* SessionExtractor.extractSessionsFromDocument(sourceDoc, plan) for a case
BatchExtraction(c) ==
  IF c.kind = "extraction_threw" THEN Throw(<<>>)
  ELSE extractSessionsWithStructureAwareness(
         <<>>, c.analysis, extractAcademyInfo(<<>>, [category |-> "", difficulty |-> ""]))

\* the records one extraction result adds to allExtractedSessions: for each
\* week its overview record, then one record per daily session
PlanSessions(planId, weeks) ==
  Flatten([w \in 1..Len(weeks) |->
             <<[plan |-> planId, weekNumber |-> weeks[w].weekNumber,
                day |-> "week_overview", isWeekOverview |-> TRUE,
                duration |-> IF weeks[w].totalDuration # 0 THEN weeks[w].totalDuration
                             ELSE GeneralDuration]>>
             \o [d \in 1..Len(weeks[w].dailySessions) |->
                   [plan |-> planId, weekNumber |-> weeks[w].weekNumber,
                    day |-> weeks[w].dailySessions[d].day, isWeekOverview |-> FALSE,
                    duration |-> weeks[w].dailySessions[d].duration]]])

\* variant of the try block in which a failing extraction is noticed only after
\* the overview record of the plan's first week was pushed
ProcessPlanFailsLate(planId, c) ==
  CASE c.kind \in {"no_source", "not_found", "null_result"} -> Ok(<<>>)
    [] c.kind = "documents_threw" -> Throw(<<>>)
    [] OTHER -> LET extractionResult == BatchExtraction(c)
                IN IF extractionResult.threw
                     THEN Throw(<<[plan |-> planId, weekNumber |-> 1,
                                   day |-> "week_overview", isWeekOverview |-> TRUE,
                                   duration |-> GeneralDuration]>>)
                   ELSE Ok(PlanSessions(planId, extractionResult.val))

\* the body of the try block for one plan: whether it threw, and the records
\* it had pushed to allExtractedSessions by then.  Both calls that can throw
\* come before the first push
ProcessPlan(planId, c) ==
  CASE c.kind \in {"no_source", "not_found", "null_result"} -> Ok(<<>>)
    [] c.kind = "documents_threw" -> Throw(<<>>)
    [] OTHER -> LET extractionResult == BatchExtraction(c)
                IN IF extractionResult.threw THEN Throw(<<>>)
                   ELSE Ok(PlanSessions(planId, extractionResult.val))

NoBatch == [phase |-> "idle", plans |-> <<>>, i |-> 0, visited |-> <<>>, cases |-> <<>>,
            caught |-> <<>>, all |-> <<>>]

\* getTrainingPlans: the stored plans, or a throw that ends initializeSessionData
BatchStart ==
  /\ batch.phase = "idle"
  /\ \/ \E n \in 1..MaxPlans :
          batch' = [batch EXCEPT !.phase = "loop", !.plans = [k \in 1..n |-> k], !.i = 1]
     \/ batch' = [batch EXCEPT !.phase = "failed"]
  /\ UNCHANGED <<today, utcShift, dateCall, legacy, notif, section, store, queue>>
  /\ UNCHANGED pipelineVars

\* variant of the loop body without the try/catch around one plan
BatchPlanUncaught ==
  /\ batch.phase = "loop"
  /\ batch.i <= Len(batch.plans)
  /\ \E c \in PlanCases :
       LET planId == batch.plans[batch.i]
           r == ProcessPlan(planId, c)
       IN batch' = IF r.threw
                     THEN [batch EXCEPT !.phase = "failed",
                                        !.visited = Append(@, planId),
                                        !.cases = Append(@, c)]
                     ELSE [batch EXCEPT !.i = @ + 1,
                                        !.visited = Append(@, planId),
                                        !.cases = Append(@, c),
                                        !.all = @ \o r.val]
  /\ UNCHANGED <<today, utcShift, dateCall, legacy, notif, section, store, queue>>
  /\ UNCHANGED pipelineVars

\* one iteration of "for (const plan of plans)": the try block and its catch,
\* which logs the error and leaves allExtractedSessions as it is
BatchPlan ==
  /\ batch.phase = "loop"
  /\ batch.i <= Len(batch.plans)
  /\ \E c \in PlanCases :
       LET planId == batch.plans[batch.i]
           r == ProcessPlan(planId, c)
       IN batch' = [batch EXCEPT !.i = @ + 1,
                                 !.visited = Append(@, planId),
                                 !.cases = Append(@, c),
                                 !.caught = IF r.threw THEN Append(@, planId) ELSE @,
                                 !.all = @ \o r.val]
  /\ UNCHANGED <<today, utcShift, dateCall, legacy, notif, section, store, queue>>
  /\ UNCHANGED pipelineVars

\* setExtractedSessions(allExtractedSessions) after the loop
BatchFinish ==
  /\ batch.phase = "loop"
  /\ batch.i > Len(batch.plans)
  /\ batch' = [batch EXCEPT !.phase = "done"]
  /\ UNCHANGED <<today, utcShift, dateCall, legacy, notif, section, store, queue>>
  /\ UNCHANGED pipelineVars

(***************************************************************************)
(* NotificationService.generateSessionNotifications, in its two versions:  *)
(* src/services/NotificationService.js and the later copy with the guard.  *)
(* A session is [id, date, time]: id 0 is a missing id; date is            *)
(* [kind |-> "undefined" | "null" | "iso", day |-> the ISO calendar day];  *)
(* time is minutes after midnight, -1 when the field is missing.  Instants *)
(* are minutes, day * MinutesPerDay + minutes after local midnight.        *)
(***************************************************************************)
MinutesPerDay == 1440

\* the local calendar day of new Date(null), far before every session
EpochDay == -20000

Session(id, kind, offset, time) ==
  [id |-> id, date |-> [kind |-> kind, day |-> today + offset], time |-> time]

NotifSessions ==
  { Session(1, "iso", 0, -1), Session(1, "iso", 1, 1080), Session(2, "iso", -1, 480),
    Session(0, "iso", 0, 480), Session(0, "iso", -1, -1),
    Session(1, "undefined", 0, 480), Session(2, "null", 0, 480),
    Session(0, "undefined", 0, -1) }

NotifInputs == UNION { [1..n -> NotifSessions] : n \in 0..MaxNotified }

\* new Date(session.date) followed by setHours(hours, minutes, 0, 0); an ISO
\* date is UTC midnight, the evening before in a zone west of Greenwich
SessionInstant(session, west) ==
  LET minutes == IF session.time # -1 THEN session.time ELSE 540
  IN CASE session.date.kind = "undefined" -> [valid |-> FALSE, at |-> 0]
       [] session.date.kind = "null" ->
            [valid |-> TRUE, at |-> EpochDay * MinutesPerDay + minutes]
       [] OTHER ->
            [valid |-> TRUE,
             at |-> (session.date.day - (IF west THEN 1 ELSE 0)) * MinutesPerDay + minutes]

DayOf(instant) == IF instant.at >= 0 THEN instant.at \div MinutesPerDay
                  ELSE -(((-instant.at) + MinutesPerDay - 1) \div MinutesPerDay)

isToday(instant) == instant.valid /\ DayOf(instant) = today

isTomorrow(instant) == instant.valid /\ DayOf(instant) = today + 1

Notification(kind, k, session, type, priority, numeric, at) ==
  [kind |-> kind, index |-> k, sessionId |-> session.id, dateKind |-> session.date.kind,
   type |-> type, priority |-> priority, numeric |-> numeric, timestamp |-> at]

\* the notifications the loop body pushes for the k-th session: none, or one
NotificationsFor(k, session, env) ==
  LET sessionDate == SessionInstant(session, env.west)
      now == today * MinutesPerDay + env.nowMinutes
  IN IF session.id \in env.completed THEN <<>>
     ELSE IF isToday(sessionDate)
       THEN LET isPast == now > sessionDate.at
            IN <<Notification("today", k, session,
                              IF isPast THEN "missed_session" ELSE "session",
                              IF isPast THEN "high" ELSE "medium", ~isPast,
                              IF isPast THEN sessionDate.at ELSE today * MinutesPerDay)>>
     ELSE IF isTomorrow(sessionDate)
       THEN LET notificationTime == (today + 1) * MinutesPerDay - 480
            IN IF now >= notificationTime
                 THEN <<Notification("tomorrow", k, session, "session", "medium", TRUE,
                                     notificationTime)>>
                 ELSE <<>>
     ELSE IF sessionDate.valid /\ sessionDate.at < now
       THEN <<Notification("missed", k, session, "missed_session", "high", TRUE,
                           sessionDate.at)>>
     ELSE <<>>

\* src/services/NotificationService.js: every session is looked at
generateSessionNotifications(allSessions, env) ==
  Ok(Flatten([k \in 1..Len(allSessions) |-> NotificationsFor(k, allSessions[k], env)]))

\* the comparator of the later version: priority first, then the newer
\* timestamp; a timestamp that is no number compares as equal
SortByPriority(list) ==
  LET rank(n) == IF n.priority = "high" THEN 0 ELSE 1
      before(a, b) == \/ rank(a) < rank(b)
                      \/ /\ rank(a) = rank(b) /\ a.numeric /\ b.numeric
                         /\ a.timestamp > b.timestamp
      Insert(sorted, x) ==
        LET k == Cardinality({i \in 1..Len(sorted) : ~before(x, sorted[i])})
        IN SubSeq(sorted, 1, k) \o <<x>> \o SubSeq(sorted, k + 1, Len(sorted))
      F[i \in 0..Len(list)] == IF i = 0 THEN <<>> ELSE Insert(F[i - 1], list[i])
  IN F[Len(list)]

\* the later version: a session without date or id is passed over, the
\* missed branch calls this.formatDate, which the class does not define, and
\* the list is sorted before it is returned
generateSessionNotificationsGuarded(allSessions, env) ==
  LET skip(session) == session.date.kind # "iso" \/ session.id = 0
      per == [k \in 1..Len(allSessions) |->
                IF skip(allSessions[k]) THEN <<>>
                ELSE NotificationsFor(k, allSessions[k], env)]
      all == Flatten(per)
  IN IF \E i \in 1..Len(all) : all[i].kind = "missed" THEN Throw(<<>>)
     ELSE Ok(SortByPriority(all))

NoNotif == [phase |-> "idle", version |-> "none", sessions |-> <<>>, threw |-> FALSE,
            out |-> <<>>]

\* the clock and the stored session statuses a call meets
NotifEnvs ==
  { e \in [west : BOOLEAN, nowMinutes : {0, 600, 1200}, completed : {{}, {1}}] :
      /\ (utcShift = 1) => e.west
      /\ (utcShift = -1) => ~e.west }

GenerateNotifications ==
  /\ notif.phase = "idle"
  /\ \E allSessions \in NotifInputs, env \in NotifEnvs :
       LET r == generateSessionNotifications(allSessions, env)
       IN notif' = [phase |-> "done", version |-> "service", sessions |-> allSessions,
                    threw |-> r.threw, out |-> r.val]
  /\ UNCHANGED <<today, utcShift, dateCall, legacy, batch, section, store, queue>>
  /\ UNCHANGED pipelineVars

GenerateNotificationsGuarded ==
  /\ notif.phase = "idle"
  /\ \E allSessions \in NotifInputs, env \in NotifEnvs :
       LET r == generateSessionNotificationsGuarded(allSessions, env)
       IN notif' = [phase |-> "done", version |-> "guarded", sessions |-> allSessions,
                    threw |-> r.threw, out |-> r.val]
  /\ UNCHANGED <<today, utcShift, dateCall, legacy, batch, section, store, queue>>
  /\ UNCHANGED pipelineVars

(***************************************************************************)
(* Strategy A's section helpers, called on one week section.  The content  *)
(* of a section is a sequence of pieces [k, v, u]: "weekday" (a weekday    *)
(* name, v = its index), "dayN" ("day v"), "sessionN" ("session v"),        *)
(* "minutes", "hours" and "hrs" ("v minutes", "v hours", "v hrs"), "clock" *)
(* ("v:u", u written with two digits),                                     *)
(* "am" and "pm" ("v am", "v pm") and "word".  A piece and the text that   *)
(* follows it take PieceChars characters; a window of the text holds the   *)
(* pieces that lie in it whole.  A time of day is <<hour, minute>>, the    *)
(* numbers the "HH:MM" string shows; <<>> is null.                         *)
(***************************************************************************)
Piece(k, v, u) == [k |-> k, v |-> v, u |-> u]

Max2(a, b) == IF a > b THEN a ELSE b

\* the character offset of the i-th piece
PositionOf(i) == (i - 1) * PieceChars

\* the number of letters of each weekday name, sunday first
NameChars == <<6, 6, 7, 9, 8, 6, 8>>

\* the match positions at, as the list a global pattern's exec loop yields them
Matching(at) ==
  [n \in 1..Cardinality(at) |-> CHOOSE i \in at : Cardinality({j \in at : j < i}) = n - 1]

\* /(monday|...|sunday)/gi
WeekdayMatches(content) ==
  LET at == Matching({i \in 1..Len(content) : content[i].k = "weekday"})
  IN [n \in 1..Len(at) |->
        [day |-> <<"weekday", content[at[n]].v>>, position |-> PositionOf(at[n])]]

\* /day\s*(\d+)/gi: a "day N", and also the "day" that ends a weekday name
\* when a number follows the name
DayNumberMatches(content) ==
  LET numbered(i) == /\ content[i].k = "weekday"
                     /\ i < Len(content)
                     /\ content[i + 1].k \in {"minutes", "hours", "hrs", "clock", "am", "pm"}
      at == Matching({i \in 1..Len(content) : content[i].k = "dayN" \/ numbered(i)})
  IN [n \in 1..Len(at) |->
        IF content[at[n]].k = "dayN"
        THEN [day |-> <<"number", content[at[n]].v>>, position |-> PositionOf(at[n])]
        ELSE [day |-> <<"number", content[at[n] + 1].v>>,
              position |-> PositionOf(at[n]) + NameChars[content[at[n]].v + 1] - 3]]

\* /(session\s*\d+)/gi
SessionNumberMatches(content) ==
  LET at == Matching({i \in 1..Len(content) : content[i].k = "sessionN"})
  IN [n \in 1..Len(at) |->
        [day |-> <<"session", content[at[n]].v>>, position |-> PositionOf(at[n])]]

\* dayPatterns.forEach: the matches of the first pattern, then of the second,
\* then of the third
foundDays(content) ==
  WeekdayMatches(content) \o DayNumberMatches(content) \o SessionNumberMatches(content)

\* the pieces of content.substring(max(0, position - before),
\*                                 min(content.length, position + after))
NearbyPieces(content, position, before, after) ==
  LET from == Max2(0, position - before)
      to == Min2(Len(content) * PieceChars, position + after)
  IN {i \in 1..Len(content) : PositionOf(i) >= from /\ PositionOf(i) + PieceChars <= to}

\* the marker's own words, lower-cased; only a weekday pattern gives a weekday
normalizeDayName(day) ==
  IF day[1] = "weekday" THEN Weekdays[day[2] + 1] ELSE day[1]

\* the unit is an hour unit when its text includes "hour"
extractSessionDuration(content, dayInfo, durationAnalysis) ==
  LET hits == {i \in NearbyPieces(content, dayInfo.position, DurationBefore, DurationAfter) :
                 content[i].k \in {"minutes", "hours", "hrs"}}
      durationMatch == content[CHOOSE i \in hits : \A j \in hits : i <= j]
  IN IF hits # {}
       THEN IF durationMatch.k = "hours" THEN durationMatch.v * MinutesPerHour
            ELSE durationMatch.v
     ELSE IF durationAnalysis.averageDuration # 0 THEN durationAnalysis.averageDuration
     ELSE BasicDuration

extractSessionTime(content, dayInfo) ==
  LET hits == {i \in NearbyPieces(content, dayInfo.position, TimeBefore, TimeAfter) :
                 content[i].k \in {"clock", "am", "pm"}}
      timeMatch == content[CHOOSE i \in hits : \A j \in hits : i <= j]
      hour == IF timeMatch.k = "pm" /\ timeMatch.v # 12 THEN timeMatch.v + 12
              ELSE IF timeMatch.k = "am" /\ timeMatch.v = 12 THEN 0
              ELSE timeMatch.v
  IN IF hits = {} THEN <<>>
     ELSE IF timeMatch.k = "clock" THEN <<timeMatch.v, timeMatch.u>>
     ELSE <<hour, 0>>

DefaultTime == <<8, 0>>

extractSessionFocus(contentIsArray) == extractWeekFocus(contentIsArray)

extractActivities(contentIsArray) ==
  IF contentIsArray THEN Ok(<<>>) ELSE Throw("TypeError")

\* the fields of the object literal in the order the code evaluates them; the
\* focus field is computed from the section's string and throws
createStructuredDailySession(dayInfo, weekNumber, dayIndex, content, durationAnalysis) ==
  LET dayName == normalizeDayName(dayInfo.day)
      sessionTime == extractSessionTime(content, dayInfo)
      session == [id |-> SessionId(weekNumber, dayIndex, "structured"),
                  weekNumber |-> weekNumber, dayNumber |-> dayIndex, day |-> dayName,
                  date |-> calculateSessionDate(weekNumber, dayName),
                  time |-> IF sessionTime = <<>> THEN DefaultTime ELSE sessionTime,
                  duration |-> extractSessionDuration(content, dayInfo, durationAnalysis),
                  type |-> "Team Training", builder |-> "structured",
                  enhancedBy |-> "none"]
  IN IF extractSessionFocus(FALSE).threw THEN Throw(<<>>) ELSE Ok(session)

\* createGeneralWeekSession(weekSection, weekNumber, academyInfo) on a section
\* whose content is a string
GeneralSessionOfSection(weekNumber) ==
  IF extractActivities(FALSE).threw THEN Throw(<<>>)
  ELSE Ok(createGeneralWeekSession(<<>>, weekNumber))

extractDailySessionsFromWeekSection(content, weekNumber, durationAnalysis) ==
  LET found == foundDays(content)
      built == [index \in 1..Len(found) |->
                  createStructuredDailySession(found[index], weekNumber, index, content,
                                               durationAnalysis)]
      general == GeneralSessionOfSection(weekNumber)
  IN IF AnyThrew(built) THEN Throw(<<>>)
     ELSE IF Len(found) > 0 THEN Ok(Vals(built))
     ELSE IF general.threw THEN Throw(<<>>)
     ELSE Ok(<<general.val>>)

Pieces ==
  {Piece("weekday", 1, 0), Piece("weekday", 3, 0), Piece("dayN", 1, 0),
   Piece("sessionN", 1, 0), Piece("minutes", 60, 0), Piece("minutes", 90, 0),
   Piece("hours", 2, 0), Piece("hrs", 2, 0),
   Piece("clock", 9, 30), Piece("clock", 25, 99), Piece("am", 12, 0),
   Piece("pm", 12, 0), Piece("pm", 3, 0), Piece("pm", 13, 0), Piece("word", 0, 0)}

Contents == UNION {[1..n -> Pieces] : n \in 1..MaxPieces}

NoSection == [op |-> "none", content |-> <<>>, weekNumber |-> 0, found |-> <<>>,
              dayInfo |-> <<>>, time |-> <<>>, averageDuration |-> 0, duration |-> 0,
              threw |-> FALSE, out |-> <<>>]

\* a direct call of extractSessionTime for one marker of a section, with the
\* default the builder puts in place of null
ExtractTime ==
  /\ section.op = "none"
  /\ \E content \in Contents :
       \E n \in 1..Len(foundDays(content)) :
          LET dayInfo == foundDays(content)[n]
              sessionTime == extractSessionTime(content, dayInfo)
          IN section' = [op |-> "time", content |-> content, weekNumber |-> 0,
                         found |-> foundDays(content), dayInfo |-> <<dayInfo>>,
                         time |-> IF sessionTime = <<>> THEN DefaultTime ELSE sessionTime,
                         averageDuration |-> 0, duration |-> 0,
                         threw |-> FALSE, out |-> <<>>]
  /\ UNCHANGED <<today, utcShift, dateCall, legacy, batch, notif, store, queue>>
  /\ UNCHANGED pipelineVars

\* a direct call of extractSessionDuration for one marker of a section
ExtractDuration ==
  /\ section.op = "none"
  /\ \E content \in Contents, averageDuration \in {0, 75} :
       \E n \in 1..Len(foundDays(content)) :
          LET dayInfo == foundDays(content)[n]
          IN section' = [op |-> "duration", content |-> content, weekNumber |-> 0,
                         found |-> foundDays(content), dayInfo |-> <<dayInfo>>,
                         time |-> <<>>, averageDuration |-> averageDuration,
                         duration |-> extractSessionDuration(
                                        content, dayInfo,
                                        [averageDuration |-> averageDuration]),
                         threw |-> FALSE, out |-> <<>>]
  /\ UNCHANGED <<today, utcShift, dateCall, legacy, batch, notif, store, queue>>
  /\ UNCHANGED pipelineVars

\* a direct call of extractDailySessionsFromWeekSection
ExtractDailySessions ==
  /\ section.op = "none"
  /\ \E content \in Contents, weekNumber \in 1..2, averageDuration \in {0, 75} :
       LET r == extractDailySessionsFromWeekSection(
                  content, weekNumber, [averageDuration |-> averageDuration])
       IN section' = [op |-> "daily", content |-> content, weekNumber |-> weekNumber,
                      found |-> foundDays(content), dayInfo |-> <<>>, time |-> <<>>,
                      averageDuration |-> averageDuration, duration |-> 0,
                      threw |-> r.threw, out |-> r.val]
  /\ UNCHANGED <<today, utcShift, dateCall, legacy, batch, notif, store, queue>>
  /\ UNCHANGED pipelineVars

(***************************************************************************)
(* NotificationService's stored lists.  AsyncStorage holds the list of     *)
(* notifications (here the set of their ids) and the list of dismissed     *)
(* ids.  deleteNotification, clearAllNotifications and syncNotifications   *)
(* are async functions: each runs up to its next await in one step, and    *)
(* the steps of different calls interleave.  A call keeps what it has read *)
(* in its locals.  gone is the set of ids whose dismissal has completed.   *)
(* All generated notifications have a session type, so the nonSession      *)
(* part of a merge is empty.                                               *)
(***************************************************************************)
NotifIds == 1..MaxNotifIds

IdleCall == [pc |-> "idle", id |-> 0, notifications |-> {}, dismissed |-> {}]

NoStore == [stored |-> {}, dismissed |-> {}, gone |-> {},
            del |-> IdleCall, clr |-> IdleCall, syn |-> IdleCall]

\* the next step of a deleteNotification(notificationId) call
deleteNotification(s, notificationId) ==
  CASE s.del.pc = "idle" ->
         [s EXCEPT !.del = [pc |-> "save", id |-> notificationId,
                            notifications |-> s.stored, dismissed |-> {}]]
    [] s.del.pc = "save" ->
         [s EXCEPT !.stored = s.del.notifications \ {s.del.id},
                   !.del.pc = "getDismissed"]
    [] s.del.pc = "getDismissed" ->
         [s EXCEPT !.del.dismissed = s.dismissed, !.del.pc = "setDismissed"]
    [] OTHER ->
         [s EXCEPT !.dismissed = s.del.dismissed \cup {s.del.id},
                   !.gone = @ \cup {s.del.id},
                   !.del = IdleCall]

\* the next step of a clearAllNotifications call
clearAllNotifications(s) ==
  CASE s.clr.pc = "idle" ->
         [s EXCEPT !.clr = [pc |-> "getDismissed", id |-> 0,
                            notifications |-> s.stored, dismissed |-> {}]]
    [] s.clr.pc = "getDismissed" ->
         [s EXCEPT !.clr.dismissed = s.dismissed, !.clr.pc = "setDismissed"]
    [] s.clr.pc = "setDismissed" ->
         [s EXCEPT !.dismissed = s.clr.dismissed \cup s.clr.notifications,
                   !.clr.pc = "save"]
    [] OTHER ->
         [s EXCEPT !.stored = {},
                   !.gone = @ \cup s.clr.notifications,
                   !.clr = IdleCall]

\* the next step of a syncNotifications(allSessions) call; the sessions give
\* a notification for every id
syncNotifications(s) ==
  CASE s.syn.pc = "idle" ->
         [s EXCEPT !.syn = [pc |-> "getDismissed", id |-> 0,
                            notifications |-> NotifIds, dismissed |-> {}]]
    [] s.syn.pc = "getDismissed" ->
         [s EXCEPT !.syn.dismissed = s.dismissed, !.syn.pc = "getNotifications"]
    [] s.syn.pc = "getNotifications" ->
         [s EXCEPT !.syn.pc = "save"]
    [] OTHER ->
         [s EXCEPT !.stored = s.syn.notifications \ s.syn.dismissed,
                   !.syn = IdleCall]

\* the user deletes a notification the list shows
DeleteNotification ==
  /\ \E notificationId \in NotifIds :
       /\ store.del.pc = "idle" => notificationId \in store.stored
       /\ store' = deleteNotification(store, notificationId)
  /\ UNCHANGED <<today, utcShift, dateCall, legacy, batch, notif, section, queue>>
  /\ UNCHANGED pipelineVars

ClearAllNotifications ==
  /\ store.clr.pc = "idle" => store.stored # {}
  /\ store' = clearAllNotifications(store)
  /\ UNCHANGED <<today, utcShift, dateCall, legacy, batch, notif, section, queue>>
  /\ UNCHANGED pipelineVars

SyncNotifications ==
  /\ store' = syncNotifications(store)
  /\ UNCHANGED <<today, utcShift, dateCall, legacy, batch, notif, section, queue>>
  /\ UNCHANGED pipelineVars

(***************************************************************************)
(* AIService's request queue.  A request is its number; settled lists the  *)
(* requests whose promise was resolved or rejected, in that order, each    *)
(* time it happened.  loop is where the processQueue loop stands: "none",  *)
(* "calling" (at the await of the rate-limit delay or of textGeneration)   *)
(* or "pausing" (at the await of the delay after a response); active       *)
(* counts the loops that have begun and not ended.  An API failure is an   *)
(* Error whose message handleAPIError reads.                               *)
(***************************************************************************)
NoQueue == [requestQueue |-> <<>>, isProcessingQueue |-> FALSE, loop |-> "none",
            current |-> 0, active |-> 0, queued |-> 0, settled |-> <<>>,
            rateLimitReset |-> FALSE, fallbackMode |-> TRUE]

\* the head of the while loop: take the next request, or end the loop
loopHead(q) ==
  IF Len(q.requestQueue) > 0
    THEN [q EXCEPT !.current = Head(q.requestQueue), !.requestQueue = Tail(@),
                   !.loop = "calling"]
    ELSE [q EXCEPT !.current = 0, !.loop = "none", !.isProcessingQueue = FALSE,
                   !.active = @ - 1]

\* processQueue up to its first await
processQueue(q) ==
  IF q.isProcessingQueue \/ Len(q.requestQueue) = 0 THEN q
  ELSE loopHead([q EXCEPT !.isProcessingQueue = TRUE, !.active = @ + 1])

handleAPIError(q, message) ==
  CASE message = "rate limit" -> [q EXCEPT !.rateLimitReset = TRUE]
    [] message = "quota" -> [q EXCEPT !.fallbackMode = TRUE]
    [] OTHER -> q

\* queueRequest(requestParams): push, and start the loop when none runs
QueueRequest ==
  /\ queue.queued < MaxRequests
  /\ LET pushed == [queue EXCEPT !.queued = @ + 1,
                                 !.requestQueue = Append(@, queue.queued + 1)]
     IN queue' = IF ~pushed.isProcessingQueue THEN processQueue(pushed) ELSE pushed
  /\ UNCHANGED <<today, utcShift, dateCall, legacy, batch, notif, section, store>>
  /\ UNCHANGED pipelineVars

\* textGeneration resolves: the request is resolved and the loop pauses
ApiResponds ==
  /\ queue.loop = "calling"
  /\ queue' = [queue EXCEPT !.settled = Append(@, <<queue.current, "resolved">>),
                            !.loop = "pausing"]
  /\ UNCHANGED <<today, utcShift, dateCall, legacy, batch, notif, section, store>>
  /\ UNCHANGED pipelineVars

\* variant of the catch block in which the error leaves processQueue: the
\* request is not rejected and isProcessingQueue stays set
ApiFailsUncaught ==
  /\ queue.loop = "calling"
  /\ queue' = [queue EXCEPT !.loop = "none", !.current = 0, !.active = @ - 1]
  /\ UNCHANGED <<today, utcShift, dateCall, legacy, batch, notif, section, store>>
  /\ UNCHANGED pipelineVars

\* textGeneration rejects: the catch block notes the error, rejects the
\* request, and the loop goes on
ApiFails ==
  /\ queue.loop = "calling"
  /\ \E message \in {"rate limit", "quota", "network"} :
       queue' = loopHead([handleAPIError(queue, message) EXCEPT
                            !.settled = Append(@, <<queue.current, "rejected">>)])
  /\ UNCHANGED <<today, utcShift, dateCall, legacy, batch, notif, section, store>>
  /\ UNCHANGED pipelineVars

\* the delay after a response ends
DelayEnds ==
  /\ queue.loop = "pausing"
  /\ queue' = loopHead(queue)
  /\ UNCHANGED <<today, utcShift, dateCall, legacy, batch, notif, section, store>>
  /\ UNCHANGED pipelineVars

(***************************************************************************)
(* Specifications.                                                         *)
(***************************************************************************)
Init ==
  /\ pc = "idle"
  /\ today \in 0..(DaysPerWeek - 1)
  /\ utcShift \in {-1, 0, 1}
  /\ text = <<>>
  /\ plan = [category |-> "", difficulty |-> ""]
  /\ analysis = NoAnalysis
  /\ academyInfo = [sport |-> "", ageGroup |-> "", difficulty |-> ""]
  /\ sessions = <<>>
  /\ enhancedSessions = <<>>
  /\ enhancedFresh = FALSE
  /\ optimizedSchedule = "null"
  /\ result = NoResult
  /\ error = NoError
  /\ stages = <<>>
  /\ outcome = NoOutcome
  /\ ai = NoAi
  /\ upcoming = <<>>
  /\ dateCall = NoDateCall
  /\ legacy = NoLegacy
  /\ batch = NoBatch
  /\ notif = NoNotif
  /\ section = NoSection
  /\ store = NoStore
  /\ queue = NoQueue

Next ==
  \/ Start
  \/ ExtractText
  \/ AnalyzeStructure
  \/ Dispatch
  \/ Enhance
  \/ Schedule
  \/ Convert

Spec == Init /\ [][Next]_vars

NextDate ==
  \/ CalcDate
  \/ LegacyExtract
  \/ LegacyConvert

SpecDate == Init /\ [][NextDate]_vars

NextBatch ==
  \/ BatchStart
  \/ BatchPlan
  \/ BatchFinish

SpecBatch == Init /\ [][NextBatch]_vars

NextNotif ==
  \/ GenerateNotifications
  \/ GenerateNotificationsGuarded

SpecNotif == Init /\ [][NextNotif]_vars

NextSection ==
  \/ ExtractTime
  \/ ExtractDuration
  \/ ExtractDailySessions

SpecSection == Init /\ [][NextSection]_vars

NextStore ==
  \/ DeleteNotification
  \/ ClearAllNotifications
  \/ SyncNotifications

SpecStore == Init /\ [][NextStore]_vars

NextQueue ==
  \/ QueueRequest
  \/ ApiResponds
  \/ ApiFails
  \/ DelayEnds

\* the API call and the timer of a delay both come to an end
SpecQueue ==
  /\ Init /\ [][NextQueue]_vars
  /\ WF_vars(ApiResponds \/ ApiFails)
  /\ WF_vars(DelayEnds)

(***************************************************************************)
(* Properties.                                                             *)
(***************************************************************************)
\* extractSessionsFromDocument has returned its ExtractionResult
Returned == pc \in {"done", "converted"}

IsWeekday(day) == \E i \in 1..Len(Weekdays) : Weekdays[i] = day

DaysOf(week) == [i \in 1..Len(week.dailySessions) |-> week.dailySessions[i].day]

\* C1: the week list of a returned ExtractionResult holds at least one
\* WeekSession, and every WeekSession at least one DailySession, whichever
\* strategy the dispatcher selected.
C1_NonEmptySchedule ==
  Returned =>
    /\ Len(result.sessions) >= 1
    /\ \A w \in 1..Len(result.sessions) : Len(result.sessions[w].dailySessions) >= 1

\* C2: in a returned ExtractionResult every WeekSession's totalDuration is the
\* sum of the durations of its dailySessions, enhanced or not.
C2_TotalDurationIsSum ==
  Returned =>
    \A w \in 1..Len(result.sessions) :
      result.sessions[w].totalDuration = SumDurations(result.sessions[w].dailySessions)

\* C3: once text extraction and structure analysis have both succeeded, the
\* invocation never ends in an error, whatever the organization level and
\* whatever weeks, days or durations the document lacks.
C3_NoErrorFromStructure ==
  (outcome.text = "ok" /\ outcome.analysis = "ok") => pc # "failed"

\* C4: when the analyzer throws or returns a malformed shape the invocation
\* does not fail; it returns the unstructured strategy's result, 4 weeks of
\* monday/wednesday/friday.
C4_AnalyzerFailureDegrades ==
  (outcome.analysis \in {"threw", "malformed"}) =>
    /\ pc # "failed"
    /\ Returned =>
         /\ result.totalWeeks = UnstructuredWeeks
         /\ \A w \in 1..Len(result.sessions) :
              DaysOf(result.sessions[w]) = <<"monday", "wednesday", "friday">>

\* C5: when text extraction or structure analysis throws, the invocation ends
\* in an error carrying the context label 'Enhanced Session Extraction', it
\* returns no ExtractionResult, and no later stage has run.
C5_UpstreamFailureRethrown ==
  (outcome.text = "threw" \/ outcome.analysis = "threw") =>
    /\ pc = "failed"
    /\ error.context = "Enhanced Session Extraction"
    /\ error.cause = IF outcome.text = "threw" THEN "text extraction" ELSE "structure analysis"
    /\ result = NoResult
    /\ stages = IF outcome.text = "threw" THEN <<"text">> ELSE <<"text", "analysis">>
    /\ outcome.strategy = "none" /\ outcome.enhance = "none" /\ outcome.schedule = "none"
    /\ sessions = <<>> /\ enhancedSessions = <<>> /\ optimizedSchedule = "null"

\* C5 witness: the analyzer threw and the invocation ended in the error
C5_Witness ==
  /\ outcome.text = "ok" /\ outcome.analysis = "threw"
  /\ pc = "failed" /\ error.context = "Enhanced Session Extraction"

C7_FlagsReflectOutcome ==
  Returned =>
    /\ result.aiEnhanced <=>
         /\ outcome.enhance = "ok"
         /\ result.sessions =
              enhanceExtractedSessions(sessions, UserProfile(academyInfo, plan), ai).val
    /\ (outcome.enhance = "threw") => (~result.aiEnhanced /\ result.sessions = sessions)
    /\ result.aiScheduled <=>
         (outcome.schedule = "ok" /\ result.optimizedSchedule = "schedule")
    /\ (outcome.schedule = "threw") => ~result.aiScheduled

\* C7 witness: a result after a failed enhancement and a produced schedule
C7_Witness ==
  /\ Returned /\ outcome.enhance = "threw" /\ outcome.schedule = "ok"
  /\ ~result.aiEnhanced /\ result.aiScheduled

\* the first day of the week offset of weekNumber, counted from today
WeekStart(weekNumber) == today + (weekNumber - 1) * DaysPerWeek

\* d lies in the seven days from the week offset on and falls on dayName
OnWeekdayInWeek(d, weekNumber, dayName) ==
  /\ WeekStart(weekNumber) <= d
  /\ d <= WeekStart(weekNumber) + 6
  /\ getDay(d) = indexOf(Weekdays, dayName)

\* C8: calculateSessionDate(weekNumber, dayName) is the date on weekday
\* dayName within the seven days from today + (weekNumber-1)*7 on, and so is
\* the date of every DailySession with a concrete weekday.
C8_DateOnWeekday ==
  /\ (dateCall.weekNumber >= 1 /\ IsWeekday(dateCall.dayName)) =>
       OnWeekdayInWeek(dateCall.date, dateCall.weekNumber, dateCall.dayName)
  /\ \A w \in 1..Len(legacy.sessions) :
       \A d \in 1..Len(legacy.sessions[w].dailySessions) :
         LET s == legacy.sessions[w].dailySessions[d]
         IN IsWeekday(s.day) => OnWeekdayInWeek(s.date, s.weekNumber, s.day)

\* C9: every session whose day is no weekday name (week_overview, week_plan
\* or another marker) has the Monday of its week as date, in the extracted
\* week list and in the list convertToUpcomingSessions makes of it.
C9_SentinelOnMonday ==
  /\ \A w \in 1..Len(legacy.sessions) :
       \A d \in 1..Len(legacy.sessions[w].dailySessions) :
         LET s == legacy.sessions[w].dailySessions[d]
         IN ~IsWeekday(s.day) => s.date = calculateSessionDate(s.weekNumber, "monday")
  /\ \A i \in 1..Len(legacy.upcoming) :
       LET u == legacy.upcoming[i]
       IN ~IsWeekday(u.day) => u.date = calculateSessionDate(u.weekNumber, "monday")

\* C10: in the week list a strategy returned, weekNumber is strictly
\* increasing along the list.
C10_WeekNumbersIncrease ==
  (outcome.strategy = "ok") =>
    \A i \in 1..(Len(sessions) - 1) : sessions[i].weekNumber < sessions[i + 1].weekNumber

\* C10 witness: Strategy B returned several weeks for an analysis whose
\* identifiedWeeks are out of order
C10_Witness ==
  /\ outcome.strategy = "ok" /\ Len(sessions) >= 2
  /\ analysis.level = "moderately_structured"
  /\ analysis.weekStructure.identifiedWeeks = <<2, 1>>

\* the strategy the dispatcher is to select for an analysis
ExpectedStrategy(structureAnalysis) ==
  CASE structureAnalysis.level = "highly_structured" -> "structured"
    [] structureAnalysis.level = "moderately_structured" ->
         IF structureAnalysis.weekStructure.totalWeeks > 0 THEN "partial"
         ELSE IF structureAnalysis.sessionStructure.hasStructuredSessions THEN "sessions"
         ELSE "basic"
    [] structureAnalysis.level = "basic_structure" -> "basic"
    [] OTHER -> "unstructured"

\* C11: the strategy that produced the week list is the one the level, the
\* identified weeks and the identified sessions select (A, B before C before
\* D, D with the reported week count or 8, D' with 4 weeks), only A and B can
\* throw, and dispatching again on the analysis as the first dispatch left it
\* gives the same outcome.
C11_DispatchIsPure ==
  (outcome.strategy # "none" /\ analysis.shape = "ok") =>
    LET expected == ExpectedStrategy(analysis)
        again == extractSessionsWithStructureAwareness(text, analysis, academyInfo)
    IN /\ (outcome.strategy = "threw") => expected \in {"structured", "partial"}
       /\ (outcome.strategy = "ok") =>
            /\ \A w \in 1..Len(sessions) : sessions[w].strategy = expected
            /\ (expected = "basic") =>
                 Len(sessions) = IF analysis.weekStructure.totalWeeks # 0
                                   THEN analysis.weekStructure.totalWeeks
                                   ELSE BasicDefaultWeeks
            /\ (expected = "unstructured") => Len(sessions) = UnstructuredWeeks
            /\ (expected \in {"partial", "sessions"}) =>
                 Len(sessions) = IF expected = "partial"
                                   THEN analysis.weekStructure.totalWeeks
                                   ELSE CeilDiv(analysis.sessionStructure.totalSessions,
                                                SessionsPerWeek)
       /\ again.threw = (outcome.strategy = "threw")
       /\ (outcome.strategy = "ok") => again.val = sessions

\* C11 witness: a moderately structured analysis with weeks and sessions both
\* identified was dispatched to Strategy B
C11_Witness ==
  /\ outcome.strategy = "ok" /\ analysis.level = "moderately_structured"
  /\ analysis.weekStructure.totalWeeks > 0
  /\ analysis.sessionStructure.hasStructuredSessions
  /\ Len(sessions) >= 1 /\ sessions[1].strategy = "partial"

KnownLevels == {"highly_structured", "moderately_structured", "basic_structure"}

\* C12: for the empty text and a level that is absent or none of the three
\* known ones, the returned result has 4 weeks, each of exactly 3 daily
\* sessions on monday, wednesday, friday in that order, each of 90 minutes.
C12_UnstructuredScenario ==
  (Returned /\ text = <<>> /\ analysis.shape = "ok" /\ analysis.level \notin KnownLevels) =>
    /\ result.totalWeeks = 4
    /\ Len(result.sessions) = 4
    /\ \A w \in 1..Len(result.sessions) :
         /\ DaysOf(result.sessions[w]) = <<"monday", "wednesday", "friday">>
         /\ \A d \in 1..Len(result.sessions[w].dailySessions) :
              result.sessions[w].dailySessions[d].duration = 90

\* the stages of one invocation, in the order of the awaits
StageOrder == <<"text", "analysis", "academy", "strategy", "enhance", "schedule", "result">>

IsPrefix(p, q) == Len(p) <= Len(q) /\ SubSeq(q, 1, Len(p)) = p

\* how the collaborator call of a stage ended ("none" while it has not)
StageOutcome(stage) ==
  CASE stage = "text" -> outcome.text
    [] stage = "analysis" -> outcome.analysis
    [] stage \in {"academy", "strategy"} -> outcome.strategy
    [] stage = "enhance" -> outcome.enhance
    [] OTHER -> outcome.schedule

\* C13: the stages of an invocation begin in the order text extraction,
\* structure analysis, academy info and strategy, enhancement, schedule
\* optimisation, result; a stage has begun only when every stage before it has
\* ended, and the result is returned only after all of them.
C13_StagesInSequence ==
  /\ IsPrefix(stages, StageOrder)
  /\ \A i \in 1..Len(stages) : StageOutcome(stages[i]) # "none"
  /\ \A i \in 1..(Len(stages) - 1) : StageOutcome(stages[i]) \in {"ok", "malformed"}
                                       \/ stages[i] \in {"academy", "enhance", "schedule"}
  /\ Returned => stages = StageOrder
  /\ (pc = "failed") => Len(stages) < Len(StageOrder)
  /\ (result # NoResult) => Returned

\* C13 witness: a result returned after all seven stages, the enhancement
\* having ended before the schedule optimisation
C13_Witness ==
  /\ pc = "done" /\ stages = StageOrder
  /\ outcome.enhance = "ok" /\ outcome.schedule = "ok"

\* the records of allExtractedSessions that came from a plan
RecordsOf(planId) == {k \in 1..Len(batch.all) : batch.all[k].plan = planId}

\* the number of records a plan's case is to add: one per week and one per
\* daily session of a returned result, none otherwise
ExpectedRecords(c) ==
  IF c.kind = "extracted" /\ ~BatchExtraction(c).threw
    THEN Len(BatchExtraction(c).val) + CountDaily(BatchExtraction(c).val)
    ELSE 0

\* C14: the batch loop never ends because of one plan: it visits every plan
\* in order, a plan whose processing threw adds nothing, and every other plan
\* adds all the records of its result.
C14_BatchSkipsFailedPlan ==
  /\ (batch.phase = "failed") => batch.visited = <<>>
  /\ (batch.phase = "loop") => batch.visited = SubSeq(batch.plans, 1, batch.i - 1)
  /\ (batch.phase = "done") => batch.visited = batch.plans
  /\ \A k \in 1..Len(batch.visited) :
       /\ Cardinality(RecordsOf(batch.visited[k])) = ExpectedRecords(batch.cases[k])
       /\ (\E j \in 1..Len(batch.caught) : batch.caught[j] = batch.visited[k])
            <=> ProcessPlan(batch.visited[k], batch.cases[k]).threw

\* C14 witness: the batch ended after a plan whose extraction threw was
\* caught and a later plan added its records
C14_Witness ==
  /\ batch.phase = "done"
  /\ \E j \in 1..Len(batch.caught) :
       /\ RecordsOf(batch.caught[j]) = {}
       /\ \E k \in RecordsOf(batch.caught[j] + 1) : TRUE

\* the core fields of a daily session are those of the one it was made from
SameCore(e, b) ==
  /\ e.weekNumber = b.weekNumber /\ e.dayNumber = b.dayNumber
  /\ e.day = b.day /\ e.date = b.date /\ e.time = b.time
  /\ e.duration = b.duration /\ e.type = b.type

\* the enhanced list has the weeks and daily sessions of the baseline, in the
\* same number and order
SameShape(enhanced, baseline) ==
  /\ Len(enhanced) = Len(baseline)
  /\ \A w \in 1..Len(baseline) :
       /\ enhanced[w].weekNumber = baseline[w].weekNumber
       /\ Len(enhanced[w].dailySessions) = Len(baseline[w].dailySessions)
       /\ \A d \in 1..Len(baseline[w].dailySessions) :
            /\ enhanced[w].dailySessions[d].day = baseline[w].dailySessions[d].day
            /\ enhanced[w].dailySessions[d].dayNumber = baseline[w].dailySessions[d].dayNumber

\* C15: after a completed enhancement the result's list has the baseline's
\* weeks and daily sessions in the same number and order, and every core
\* field (weekNumber, day, date, time, duration, totalDuration) has the
\* baseline's value.
C15_EnhancementAdditive ==
  (Returned /\ outcome.enhance = "ok") =>
    /\ SameShape(result.sessions, sessions)
    /\ \A w \in 1..Len(sessions) :
         /\ result.sessions[w].totalDuration = sessions[w].totalDuration
         /\ \A d \in 1..Len(sessions[w].dailySessions) :
              SameCore(result.sessions[w].dailySessions[d], sessions[w].dailySessions[d])

\* C16: in a returned result the ids of the weeks are pairwise distinct and
\* the ids of all daily sessions are pairwise distinct, with a clock that does
\* not advance while the records are made.
C16_IdsDistinct ==
  Returned =>
    LET daily == Flatten([w \in 1..Len(result.sessions) |-> result.sessions[w].dailySessions])
    IN /\ \A i, j \in 1..Len(result.sessions) :
            (i # j) => result.sessions[i].id # result.sessions[j].id
       /\ \A i, j \in 1..Len(daily) : (i # j) => daily[i].id # daily[j].id

\* C16 witness: a result of several weeks, each of several daily sessions,
\* all stamped with the same clock reading
C16_Witness ==
  /\ Returned /\ Len(result.sessions) >= 2
  /\ \A w \in 1..Len(result.sessions) :
       /\ Len(result.sessions[w].dailySessions) >= 2
       /\ result.sessions[w].id[4] = result.sessions[1].id[4]
       /\ \A d \in 1..Len(result.sessions[w].dailySessions) :
            result.sessions[w].dailySessions[d].id[5] = result.sessions[1].id[4]

\* a session that lacks its id or its date
LacksIdOrDate(session) == session.id = 0 \/ session.date.kind # "iso"

\* C17: notification generation never fails because of a session without id
\* or date, and no notification it returns refers to such a session.
C17_SkipsIncompleteSessions ==
  (notif.phase = "done") =>
    /\ notif.threw =>
         \E k \in 1..Len(notif.sessions) : ~LacksIdOrDate(notif.sessions[k])
    /\ \A i \in 1..Len(notif.out) : ~LacksIdOrDate(notif.sessions[notif.out[i].index])

\* a time of day that a 24-hour "HH:MM" string can show
Valid24h(t) == Len(t) = 2 /\ t[1] \in 0..23 /\ t[2] \in 0..59

\* C18: the time the builder gives a daily session is a valid 24-hour HH:MM
\* value, whatever time-like text stands near the day marker: the time found
\* there when it is one, 08:00 otherwise
C18_TimeIsValid24h ==
  /\ section.op = "time" => Valid24h(section.time)
  /\ (section.op = "daily" /\ ~section.threw) =>
        \A i \in 1..Len(section.out) : Valid24h(section.out[i].time)

\* the day markers a section shows to a reader: its weekday names, its "day N"
\* and its "session N"
MarkersIn(content) ==
  {i \in 1..Len(content) : content[i].k \in {"weekday", "dayN", "sessionN"}}

\* C19: called on a week section, Strategy A's daily extraction returns one
\* daily session per day marker of the section, and one overview session when
\* the section has no marker; a section that is a weekday name followed by
\* "<n> minutes" gives one session on that weekday that lasts n minutes
C19_OneSessionPerMarker ==
  section.op = "daily" =>
    /\ ~section.threw
    /\ Len(section.out) = Max2(1, Cardinality(MarkersIn(section.content)))
    /\ (/\ Len(section.content) = 2
        /\ section.content[1].k = "weekday"
        /\ section.content[2].k = "minutes") =>
          /\ section.out[1].day = Weekdays[section.content[1].v + 1]
          /\ section.out[1].duration = section.content[2].v

\* C20: the markers of a section are numbered in document order: a marker at a
\* smaller offset has the smaller day number (its place in the list the daily
\* sessions are built from) than a marker at a larger offset
C20_MarkersInDocumentOrder ==
  section.op = "daily" =>
    \A i, j \in 1..Len(section.found) :
       section.found[i].position < section.found[j].position => i < j

\* the dispatcher hands the analysis to Strategy B
UsesStrategyB ==
  /\ outcome.strategy # "none"
  /\ analysis.shape = "ok" /\ analysis.level = "moderately_structured"
  /\ analysis.weekStructure.totalWeeks > 0

IsIdentified(weekNum) ==
  \E i \in 1..Len(analysis.weekStructure.identifiedWeeks) :
     analysis.weekStructure.identifiedWeeks[i] = weekNum

\* the default pattern of a week: monday, wednesday and friday, 90 minutes each
IsDefaultPattern(week) ==
  /\ DaysOf(week) = <<"monday", "wednesday", "friday">>
  /\ \A i \in 1..Len(week.dailySessions) : week.dailySessions[i].duration = 90

\* what C21 says of the weeks Strategy B returned
StrategyBWeeks ==
  /\ Len(sessions) = analysis.weekStructure.totalWeeks
  /\ \A k \in 1..Len(sessions) :
       /\ sessions[k].weekNumber = k
       /\ ~IsIdentified(k) => IsDefaultPattern(sessions[k])
       /\ (/\ IsIdentified(k)
           /\ TextMatchesWeek(text, k) => DayNamesIn(WeekWindow(text, k)) = <<>>)
             => IsDefaultPattern(sessions[k])

\* C21: Strategy B returns one week for each week number 1..totalWeeks, in
\* ascending order without a gap; a week that is not identified, and an
\* identified week whose text window holds no weekday name, has the default
\* pattern of three 90-minute sessions on monday, wednesday and friday
C21_StrategyBFillsWeeks ==
  UsesStrategyB => (outcome.strategy = "ok" /\ StrategyBWeeks)

\* the dispatcher hands the analysis to Strategy C
UsesStrategyC ==
  /\ outcome.strategy # "none"
  /\ analysis.shape = "ok" /\ analysis.level = "moderately_structured"
  /\ analysis.weekStructure.totalWeeks = 0
  /\ analysis.sessionStructure.hasStructuredSessions

ByStrategyD ==
  /\ pc = "enhance"
  /\ outcome.strategy = "ok"
  /\ sessions # <<>>
  /\ sessions[1].strategy \in {"basic", "unstructured"}

\* C23: Strategy D does not scan the text: with the academy information, the
\* analysis and the reference date fixed, it returns the same weeks for every
\* other document text; it returns 4 weeks for an unstructured document, else
\* the analysis' week count or 8 without one, each week with the default
\* pattern
C23_StrategyDIgnoresText ==
  ByStrategyD =>
    /\ \A t \in Docs :
         extractSessionsWithStructureAwareness(t, analysis, academyInfo) = Ok(sessions)
    /\ Len(sessions) = IF sessions[1].strategy = "unstructured" THEN 4
                       ELSE IF analysis.weekStructure.totalWeeks # 0
                         THEN analysis.weekStructure.totalWeeks
                       ELSE 8
    /\ \A k \in 1..Len(sessions) : IsDefaultPattern(sessions[k])

\* C23 witness: Strategy D returned its eight default weeks for a text that
\* names a week and a weekday
C23_Witness ==
  /\ ByStrategyD
  /\ sessions[1].strategy = "basic" /\ Len(sessions) = 8
  /\ \E i \in 1..Len(text) : text[i].k = "week"
  /\ \E i \in 1..Len(text) : text[i].k = "day"

\* the duration pieces that lie whole in the window from 100 characters before
\* a marker to 200 characters after it
DurationTokens(content, position) ==
  {i \in 1..Len(content) :
     /\ content[i].k \in {"minutes", "hours", "hrs"}
     /\ PositionOf(i) >= Max2(0, position - 100)
     /\ PositionOf(i) + PieceChars <= Min2(Len(content) * PieceChars, position + 200)}

\* C24: extractSessionDuration returns, for the first "<number> <unit>" in the
\* window around the marker, number * 60 when the unit is an hour unit (hours,
\* hrs) and number when it is a minute unit; with no such text it returns the
\* analyzer's average duration, and 90 when there is none
C24_DurationInMinutes ==
  section.op = "duration" =>
    LET tokens == DurationTokens(section.content, section.dayInfo[1].position)
        first == section.content[CHOOSE i \in tokens : \A j \in tokens : i <= j]
    IN section.duration =
         IF tokens # {}
           THEN IF first.k \in {"hours", "hrs"} THEN first.v * 60 ELSE first.v
         ELSE IF section.averageDuration # 0 THEN section.averageDuration
         ELSE 90

\* the places <<week, day>> of the daily sessions of a result
PlacesOf(extracted) ==
  UNION {{<<w, d>> : d \in 1..Len(extracted.sessions[w].dailySessions)} :
           w \in 1..Len(extracted.sessions)}

\* C25: convertToUpcomingSessions returns one list that holds each daily
\* session of each week of the result once, under its id (so the list is as
\* long as totalSessions), ordered by date ascending
C25_UpcomingFlatAndSorted ==
  pc = "converted" =>
    /\ Len(upcoming) = result.totalSessions
    /\ Len(upcoming) = Cardinality(PlacesOf(result))
    /\ \A p \in PlacesOf(result) :
         Cardinality({i \in 1..Len(upcoming) :
                        upcoming[i].id = result.sessions[p[1]].dailySessions[p[2]].id}) = 1
    /\ \A i \in 1..(Len(upcoming) - 1) : upcoming[i].date <= upcoming[i + 1].date

\* C25 witness: a result of several weeks was converted, and the list begins
\* with a session that is not the first of its week
C25_Witness ==
  /\ pc = "converted"
  /\ Len(result.sessions) >= 2
  /\ Len(upcoming) >= 6
  /\ upcoming[1].dayNumber # 1

\* every daily session of a week list carries the week number of its week
WeekNumbersAgree(weeks) ==
  \A w \in 1..Len(weeks) :
     \A d \in 1..Len(weeks[w].dailySessions) :
        weeks[w].dailySessions[d].weekNumber = weeks[w].weekNumber

\* C26: in the week list a strategy returns, every daily session has the
\* week number of the week that holds it; the daily sessions Strategy A's
\* section helper returns for week n, the overview session of a section
\* without a day marker among them, have week number n
C26_DailyWeekNumberMatches ==
  /\ outcome.strategy = "ok" => WeekNumbersAgree(sessions)
  /\ section.op = "daily" =>
       /\ ~section.threw
       /\ \A i \in 1..Len(section.out) : section.out[i].weekNumber = section.weekNumber

\* C27: extraction leaves the StructureAnalysis it was given as the analyzer
\* produced it: from the moment the analysis is handed to the dispatcher, no
\* step of the invocation changes any of its fields, the order of
\* weekStructure.weekTitles included
C27_AnalysisUnchanged ==
  [][(pc \in {"dispatch", "enhance", "schedule", "done"}) => (analysis' = analysis)]_vars

\* C28: a plan whose processing raised an error has no record in the
\* combined session list: nothing that was pushed for it before the error
\* is left there
C28_FailedPlanLeavesNothing ==
  \A j \in 1..Len(batch.caught) : RecordsOf(batch.caught[j]) = {}

\* C28 witness: the loop is over, a plan failed inside the extraction it had
\* begun for a structured document, and the plan before it added its records
C28_Witness ==
  /\ batch.phase = "done"
  /\ \E k \in 2..Len(batch.visited) :
       /\ batch.cases[k].kind = "extracted"
       /\ \E j \in 1..Len(batch.caught) : batch.caught[j] = batch.visited[k]
       /\ RecordsOf(batch.visited[k - 1]) # {}

\* C29: once a deleteNotification(id) or clearAllNotifications call has
\* completed, the stored list holds no notification with an id the call
\* dismissed, however the steps of the calls interleave
C29_DismissedStayGone ==
  store.gone \cap store.stored = {}

\* the requests settled so far are requests 1, 2, ... in the order they were
\* queued, each once
SettledInOrder ==
  \A i \in 1..Len(queue.settled) : queue.settled[i][1] = i

====
